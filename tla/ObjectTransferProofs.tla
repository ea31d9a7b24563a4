------------------------- MODULE ObjectTransferProofs -------------------------
(***************************************************************************)
(* The safety of the object transfers for any manifests and snapshots, any *)
(* number of rows and any number of faults.                                *)
(***************************************************************************)
EXTENDS ObjectTransfer, TLAPS

WriterLabels == {"lookup", "head", "put", "mark", "bind", "reference", "commit"}
CleanLabels  == {"cleanHead", "cleanDelete", "cleanMark"}
Stored       == {"persisted", "bound"}

\* A writer in a flow has an item.  Until it marks its row, that row is its pending intent;
\* when it marks, the object is there; what it binds and commits is persisted.
WriterKnows ==
    /\ pc \in WriterLabels => item \in Items
    /\ pc \in {"head", "put", "mark", "bind", "reference"} => cur # 0
    /\ pc \in {"head", "put", "mark"} => xfer[cur].state = "pending"
    /\ pc = "mark" => cur \in store
    /\ pc = "bind" => xfer[cur].state \in Stored
    /\ pc = "reference" => xfer[cur].state = "bound"
    /\ pc \notin WriterLabels => held = {}
    /\ \A t \in held : xfer[t].state \in Stored

\* A cleanup works on an open row that nothing binds or names, and closes it only when
\* the object is gone.
CleanerKnows ==
    /\ pc \in CleanLabels => cur # 0 /\ ~Protected(cur) /\ xfer[cur].state # "removed"
    /\ pc = "cleanMark" => cur \notin store

\* What an artifact or a result names is bound.
NamedBound == \A t \in refs : xfer[t].state = "bound"

TransferInv ==
    /\ TypeOK /\ WriterKnows /\ CleanerKnows
    /\ NamedBound /\ NothingLeaks /\ OneObjectPerIntent

\* A finished row has its object, except in the moment between DELETE and the closing of
\* the row.
FinishedStored ==
    \A t \in DOMAIN xfer : xfer[t].state \in Stored => t \in store \/ (pc = "cleanMark" /\ t = cur)

-----------------------------------------------------------------------------
(* What the primitives do to the rows.                                     *)

\* The rows of object_transfers.
TransferRows == [item : Items, state : States]

\* Setting the state of one row leaves every other row, and the item of this one, alone.
LEMMA SetStateRows ==
    ASSUME TypeOK, NEW t \in DOMAIN xfer, NEW s \in States, SetState(t, s)
    PROVE  /\ xfer' \in Seq(TransferRows) /\ Len(xfer') = Len(xfer) /\ DOMAIN xfer' = DOMAIN xfer
           /\ \A u \in DOMAIN xfer : /\ xfer'[u].item = xfer[u].item
                                     /\ xfer'[u].state = IF u = t THEN s ELSE xfer[u].state
  <1>1. xfer \in Seq(TransferRows)
    BY DEF TypeOK, TransferRows
  <1>2. xfer' = [xfer EXCEPT ![t] = [xfer[t] EXCEPT !.state = s]]
    BY DEF SetState
  <1>3. xfer[t] \in TransferRows
    BY <1>1
  <1>4. [xfer[t] EXCEPT !.state = s] \in TransferRows
    BY <1>3 DEF TransferRows
  <1> QED
    BY <1>1, <1>2, <1>4 DEF TransferRows

\* The rows of one item that are not closed are one row at most, so the newest is it.
LEMMA NewestRow ==
    ASSUME TypeOK, OneObjectPerIntent, Rows # {}
    PROVE  Newest \in Rows
  <1>1. PICK t \in Rows : TRUE
    OBVIOUS
  <1>2. \A u \in Rows : u = t
    BY <1>1 DEF Rows, OneObjectPerIntent
  <1>3. t \in Nat
    BY <1>1 DEF Rows, TypeOK
  <1>4. \E r \in Rows : \A u \in Rows : u <= r
    BY <1>1, <1>2, <1>3
  <1> QED
    BY <1>4 DEF Newest

\* Where a flow goes on from a persisted item.
LEMMA AdvanceGoes ==
    ASSUME item \in Items, Advance
    PROVE  pc' \in {"bind", "lookup", "commit"} /\ item' \in Items
  BY DEF Advance, Items

\* Letting go of the Run leaves nothing in progress.
LEMMA LeaveKnows ==
    ASSUME NEW parked, Leave(parked)
    PROVE  pc' = "idle" /\ WriterKnows' /\ CleanerKnows' /\ held' = {} /\ cur' = 0
  BY DEF Leave, WriterKnows, CleanerKnows, WriterLabels, CleanLabels

\* Letting go of the Run keeps the types.
LEMMA LeaveTypes ==
    ASSUME NEW parked \in BOOLEAN, Leave(parked), xfer' \in Seq(TransferRows), store' \subseteq DOMAIN xfer',
           refs' \subseteq DOMAIN xfer', faults' \in 0..MaxFaults
    PROVE  TypeOK'
  BY DEF Leave, TypeOK, TransferRows, Labels

-----------------------------------------------------------------------------
(* The invariant is kept by every step, one lemma per group of actions.    *)

\* An empty table and an idle writer satisfy the invariant.
LEMMA TransferInit == Init => TransferInv /\ FinishedStored
  BY TransferAssumption DEF Init, TransferInv, TypeOK, WriterKnows, CleanerKnows, NamedBound,
     NothingLeaks, OneObjectPerIntent, FinishedStored, Items, States, Labels, WriterLabels,
     CleanLabels, Stored

\* A step that changes no durable state.
LEMMA QuietSteps ==
    ASSUME TransferInv,
           \/ \E first \in {"media", "srt"} \cup Snapshots : Start(first)
           \/ HeadObject \/ Cancelled \/ Crash \/ StartCleanup \/ CleanHead \/ CleanDone \/ CleanStops
           \/ \E t \in DOMAIN xfer : Clean(t)
           \/ UNCHANGED vars
    PROVE  TransferInv'
  <1> USE TransferAssumption DEF TransferInv
  <1>1. UNCHANGED durable
    BY DEF Start, HeadObject, Cancelled, Crash, StartCleanup, CleanHead, CleanDone, CleanStops, Clean, vars
  <1>2. NamedBound' /\ NothingLeaks' /\ OneObjectPerIntent'
    BY <1>1 DEF durable, NamedBound, NothingLeaks, OneObjectPerIntent
  <1>3. ASSUME NEW parked \in BOOLEAN, Leave(parked), faults' \in 0..MaxFaults PROVE TransferInv'
    BY <1>1, <1>2, <1>3, LeaveKnows DEF durable, TypeOK, Leave, Labels
  <1>4. ASSUME NEW class, Fault(class) PROVE faults' \in 0..MaxFaults
    BY <1>4 DEF TypeOK, Fault
  <1>5. CASE \E first \in {"media", "srt"} \cup Snapshots : Start(first)
    BY <1>1, <1>2, <1>5 DEF durable, Start, TypeOK, Items, Labels, WriterKnows, CleanerKnows,
       WriterLabels, CleanLabels, Stored
  <1>6. CASE HeadObject
    <2>1. CASE Fault("head") /\ Leave(FALSE)
      BY <1>3, <1>4, <2>1
    <2>2. CASE pc' = (IF cur \in store THEN "mark" ELSE "put") /\ UNCHANGED <<active, item, cur, held, faults>>
      BY <1>1, <1>2, <1>6, <2>2 DEF HeadObject, durable, TypeOK, Labels, WriterKnows, CleanerKnows,
         WriterLabels, CleanLabels
    <2> QED
      BY <1>6, <2>1, <2>2 DEF HeadObject
  <1>7. CASE Cancelled \/ Crash \/ CleanStops
    BY <1>3, <1>4, <1>7 DEF Cancelled, Crash, CleanStops
  <1>8. CASE CleanDone
    BY <1>3, <1>8 DEF CleanDone, TypeOK
  <1>9. CASE StartCleanup
    BY <1>1, <1>2, <1>9 DEF StartCleanup, durable, TypeOK, Labels, WriterKnows, CleanerKnows,
       WriterLabels, CleanLabels
  <1>10. CASE CleanHead
    <2>1. CASE Fault("head") /\ Leave(FALSE)
      BY <1>3, <1>4, <2>1
    <2>2. CASE /\ pc' = IF cur \in store THEN "cleanDelete" ELSE "cleanMark"
               /\ UNCHANGED <<active, item, cur, held, faults>>
      BY <1>1, <1>2, <1>10, <2>2 DEF CleanHead, durable, TypeOK, Labels, WriterKnows, CleanerKnows,
         WriterLabels, CleanLabels, Protected
    <2> QED
      BY <1>10, <2>1, <2>2 DEF CleanHead
  <1>11. ASSUME NEW t \in DOMAIN xfer, Clean(t) PROVE TransferInv'
    BY <1>1, <1>2, <1>11 DEF Clean, durable, TypeOK, Labels, WriterKnows, CleanerKnows,
       WriterLabels, CleanLabels, Protected
  <1>12. CASE UNCHANGED vars
    BY <1>1, <1>2, <1>12 DEF vars, durable, TypeOK, WriterKnows, CleanerKnows, Protected
  <1> QED
    BY <1>5, <1>6, <1>7, <1>8, <1>9, <1>10, <1>11, <1>12

\* The transaction that opens an intent, or finds the one there is.
LEMMA LookupStep ==
    ASSUME TransferInv, Lookup
    PROVE  TransferInv' /\ (FinishedStored => FinishedStored')
  <1> USE TransferAssumption DEF TransferInv
  <1>1. item \in Items /\ pc = "lookup" /\ UNCHANGED <<store, refs, active, faults>>
    BY DEF Lookup, WriterKnows, WriterLabels
  <1>2. CASE Rows = {} /\ xfer' = Append(xfer, [item |-> item, state |-> "pending"])
             /\ cur' = Len(xfer) + 1 /\ pc' = "head" /\ UNCHANGED <<item, held>>
    <2>1. [item |-> item, state |-> "pending"] \in TransferRows
      BY <1>1 DEF TransferRows, States
    <2>2. xfer \in Seq(TransferRows)
      BY DEF TypeOK, TransferRows
    <2>3. /\ xfer' \in Seq(TransferRows) /\ Len(xfer') = Len(xfer) + 1 /\ Len(xfer) \in Nat
          /\ DOMAIN xfer = 1..Len(xfer) /\ DOMAIN xfer' = 1..(Len(xfer) + 1)
          /\ \A t \in DOMAIN xfer : xfer'[t] = xfer[t]
          /\ xfer'[Len(xfer) + 1] = [item |-> item, state |-> "pending"]
      BY <1>2, <2>1, <2>2
    <2>4. TypeOK'
      BY <1>1, <1>2, <2>3 DEF TypeOK, TransferRows, Labels
    <2>5. WriterKnows' /\ CleanerKnows'
      BY <1>1, <1>2, <2>3 DEF TypeOK, WriterKnows, CleanerKnows, WriterLabels, CleanLabels
    <2>6. NamedBound' /\ NothingLeaks'
      BY <1>1, <2>3 DEF TypeOK, NamedBound, NothingLeaks
    <2>7. OneObjectPerIntent'
      <3>1. \A t \in DOMAIN xfer : xfer[t].item = item => xfer[t].state = "removed"
        BY <1>2 DEF Rows
      <3>2. xfer'[Len(xfer) + 1].item = item
        BY <2>3
      <3> QED
        BY <2>3, <3>1, <3>2 DEF OneObjectPerIntent
    <2>8. FinishedStored => FinishedStored'
      BY <1>1, <2>3 DEF FinishedStored, Stored
    <2> QED
      BY <2>4, <2>5, <2>6, <2>7, <2>8
  <1>3. CASE Rows # {} /\ cur' = Newest /\ UNCHANGED xfer
             /\ IF xfer[Newest].state = "pending"
                THEN pc' = "head" /\ UNCHANGED <<item, held>>
                ELSE held' = held \cup {Newest} /\ Advance
    <2>1. Newest \in DOMAIN xfer /\ xfer[Newest].state \in States \ {"removed"} /\ Newest # 0
      <3>1. Newest \in DOMAIN xfer /\ xfer[Newest].state # "removed"
        BY <1>3, NewestRow DEF Rows
      <3>2. xfer \in Seq(TransferRows)
        BY DEF TypeOK, TransferRows
      <3>3. xfer[Newest] \in TransferRows /\ Newest \in Nat \ {0}
        BY <3>1, <3>2
      <3> QED
        BY <3>1, <3>3 DEF TransferRows
    <2>2. NamedBound' /\ NothingLeaks' /\ OneObjectPerIntent'
      BY <1>1, <1>3 DEF NamedBound, NothingLeaks, OneObjectPerIntent
    <2>3. FinishedStored => FinishedStored'
      BY <1>1, <1>3 DEF FinishedStored
    <2>4. CASE xfer[Newest].state = "pending"
      BY <1>1, <1>3, <2>1, <2>2, <2>3, <2>4 DEF TypeOK, Labels, WriterKnows, CleanerKnows,
         WriterLabels, CleanLabels
    <2>5. CASE xfer[Newest].state # "pending"
      <3>1. pc' \in {"bind", "lookup", "commit"} /\ item' \in Items
        BY <1>1, <1>3, <2>5, AdvanceGoes
      <3>2. xfer[Newest].state \in Stored
        BY <2>1, <2>5 DEF States, Stored
      <3>3. TypeOK'
        BY <1>1, <1>3, <2>1, <2>5, <3>1 DEF TypeOK, Labels
      <3>4. WriterKnows' /\ CleanerKnows'
        BY <1>1, <1>3, <2>1, <2>5, <3>1, <3>2 DEF TypeOK, WriterKnows, CleanerKnows, WriterLabels, CleanLabels
      <3> QED
        BY <2>2, <2>3, <3>3, <3>4
    <2> QED
      BY <2>4, <2>5
  <1> QED
    BY <1>2, <1>3 DEF Lookup

\* The PUT stores the object of the pending row, whether its answer arrives or not.
LEMMA PutStep ==
    ASSUME TransferInv, PutObject
    PROVE  TransferInv' /\ (FinishedStored => FinishedStored')
  <1> USE TransferAssumption DEF TransferInv
  <1>1. pc = "put" /\ cur \in DOMAIN xfer /\ xfer[cur].state = "pending" /\ UNCHANGED <<xfer, refs>>
    BY DEF PutObject, WriterKnows, TypeOK
  <1>2. store' \in {store, store \cup {cur}}
    BY DEF PutObject
  <1>3. NamedBound' /\ NothingLeaks' /\ OneObjectPerIntent'
    BY <1>1, <1>2 DEF NamedBound, NothingLeaks, OneObjectPerIntent
  <1>4. FinishedStored => FinishedStored'
    BY <1>1, <1>2 DEF FinishedStored
  <1>5. CASE store' = store \cup {cur} /\ pc' = "mark" /\ UNCHANGED <<active, item, cur, held, faults>>
    BY <1>1, <1>3, <1>4, <1>5 DEF TypeOK, Labels, WriterKnows, CleanerKnows, WriterLabels, CleanLabels
  <1>6. CASE Fault("put") /\ Leave(FALSE)
    <2>1. WriterKnows' /\ CleanerKnows'
      BY <1>6, LeaveKnows
    <2>2. store' \subseteq DOMAIN xfer /\ faults' \in 0..MaxFaults
      <3>1. store' \subseteq DOMAIN xfer
        BY <1>1, <1>2 DEF TypeOK
      <3>2. faults' \in 0..MaxFaults
        BY <1>6 DEF TypeOK, Fault
      <3> QED
        BY <3>1, <3>2
    <2>3. TypeOK'
      BY <1>1, <1>6, <2>2, LeaveTypes DEF TypeOK, TransferRows
    <2> QED
      BY <1>3, <1>4, <2>1, <2>3
  <1> QED
    BY <1>5, <1>6 DEF PutObject

\* Marking, binding and closing set the state of the one row in work.
LEMMA StateSteps ==
    ASSUME TransferInv, MarkPersisted \/ BindObject \/ CleanMark
    PROVE  TransferInv' /\ (FinishedStored => FinishedStored')
  <1> USE TransferAssumption DEF TransferInv
  <1>1. cur \in DOMAIN xfer
    BY DEF MarkPersisted, BindObject, CleanMark, TypeOK, WriterKnows, CleanerKnows, CleanLabels
  <1>2. CASE MarkPersisted
    <2>1. SetState(cur, "persisted") /\ pc = "mark" /\ item \in Items /\ cur \in store
          /\ xfer[cur].state = "pending"
          /\ held' = held \cup {cur} /\ UNCHANGED <<store, refs, active, cur, faults>>
      BY <1>2 DEF MarkPersisted, WriterKnows, WriterLabels
    <2>2. pc' \in {"bind", "lookup", "commit"} /\ item' \in Items
      BY <1>2, <2>1, AdvanceGoes DEF MarkPersisted
    <2>3. /\ xfer' \in Seq(TransferRows) /\ Len(xfer') = Len(xfer) /\ DOMAIN xfer' = DOMAIN xfer
          /\ \A u \in DOMAIN xfer : /\ xfer'[u].item = xfer[u].item
                                    /\ xfer'[u].state = IF u = cur THEN "persisted" ELSE xfer[u].state
      BY <1>1, <2>1, SetStateRows DEF States
    <2>4. TypeOK'
      BY <1>1, <2>1, <2>2, <2>3 DEF TypeOK, TransferRows, Labels
    <2>5. WriterKnows' /\ CleanerKnows'
      BY <1>1, <2>1, <2>2, <2>3 DEF TypeOK, WriterKnows, CleanerKnows, WriterLabels, CleanLabels, Stored
    <2>6. NamedBound' /\ NothingLeaks' /\ OneObjectPerIntent'
      BY <2>1, <2>3 DEF TypeOK, NamedBound, NothingLeaks, OneObjectPerIntent
    <2>7. FinishedStored => FinishedStored'
      BY <2>1, <2>3 DEF FinishedStored
    <2> QED
      BY <2>4, <2>5, <2>6, <2>7
  <1>3. CASE BindObject
    <2>1. SetState(cur, "bound") /\ pc = "bind" /\ xfer[cur].state \in Stored
          /\ UNCHANGED <<store, refs, faults>>
      BY <1>3 DEF BindObject, WriterKnows
    <2>2. /\ xfer' \in Seq(TransferRows) /\ Len(xfer') = Len(xfer) /\ DOMAIN xfer' = DOMAIN xfer
          /\ \A u \in DOMAIN xfer : /\ xfer'[u].item = xfer[u].item
                                    /\ xfer'[u].state = IF u = cur THEN "bound" ELSE xfer[u].state
      BY <1>1, <2>1, SetStateRows DEF States
    <2>3. NamedBound' /\ NothingLeaks' /\ OneObjectPerIntent'
      BY <2>1, <2>2 DEF TypeOK, NamedBound, NothingLeaks, OneObjectPerIntent, Stored
    <2>4. FinishedStored => FinishedStored'
      BY <1>1, <2>1, <2>2 DEF FinishedStored
    <2>5. CASE pc' = "reference" /\ UNCHANGED <<active, item, cur, held>>
      <3>1. TypeOK'
        BY <2>1, <2>2, <2>5 DEF TypeOK, TransferRows, Labels
      <3>2. WriterKnows' /\ CleanerKnows'
        BY <1>1, <2>1, <2>2, <2>5 DEF TypeOK, WriterKnows, CleanerKnows, WriterLabels, CleanLabels, Stored
      <3> QED
        BY <2>3, <2>4, <3>1, <3>2
    <2>6. ASSUME NEW parked \in BOOLEAN, Leave(parked)
          PROVE  TransferInv' /\ (FinishedStored => FinishedStored')
      <3>1. TypeOK'
        BY <2>1, <2>2, <2>6 DEF TypeOK, TransferRows, Labels, Leave
      <3> QED
        BY <2>3, <2>4, <2>6, <3>1, LeaveKnows
    <2> QED
      BY <1>3, <2>5, <2>6 DEF BindObject
  <1>4. CASE CleanMark
    <2>1. SetState(cur, "removed") /\ pc = "cleanMark" /\ cur \notin store /\ ~Protected(cur)
          /\ pc' = "clean" /\ UNCHANGED <<store, refs, active, item, cur, held, faults>>
      BY <1>4 DEF CleanMark, CleanerKnows, CleanLabels
    <2>2. /\ xfer' \in Seq(TransferRows) /\ Len(xfer') = Len(xfer) /\ DOMAIN xfer' = DOMAIN xfer
          /\ \A u \in DOMAIN xfer : /\ xfer'[u].item = xfer[u].item
                                    /\ xfer'[u].state = IF u = cur THEN "removed" ELSE xfer[u].state
      BY <1>1, <2>1, SetStateRows DEF States
    <2>3. TypeOK'
      BY <2>1, <2>2 DEF TypeOK, TransferRows, Labels
    <2>4. WriterKnows' /\ CleanerKnows'
      BY <2>1, <2>2 DEF TypeOK, WriterKnows, CleanerKnows, WriterLabels, CleanLabels
    <2>5. NamedBound' /\ NothingLeaks' /\ OneObjectPerIntent'
      BY <2>1, <2>2 DEF TypeOK, NamedBound, NothingLeaks, OneObjectPerIntent, Protected
    <2>6. FinishedStored => FinishedStored'
      BY <2>1, <2>2 DEF FinishedStored, Stored
    <2> QED
      BY <2>3, <2>4, <2>5, <2>6
  <1> QED
    BY <1>2, <1>3, <1>4

\* The steps that make an artifact or a result name its objects, and the DELETE.
LEMMA NamingSteps ==
    ASSUME TransferInv, PublishMediaObject \/ CommitResult \/ CleanDelete
    PROVE  TransferInv' /\ (FinishedStored => FinishedStored')
  <1> USE TransferAssumption DEF TransferInv
  <1>1. CASE PublishMediaObject
    <2>1. pc = "reference" /\ cur \in DOMAIN xfer /\ xfer[cur].state = "bound"
          /\ refs' = refs \cup {cur} /\ UNCHANGED <<xfer, store, faults>>
      BY <1>1 DEF PublishMediaObject, WriterKnows, TypeOK
    <2>2. PICK parked \in BOOLEAN : Leave(parked)
      BY <1>1 DEF PublishMediaObject
    <2>3. TypeOK'
      BY <2>1, <2>2 DEF TypeOK, Leave, Labels
    <2>4. NamedBound' /\ NothingLeaks' /\ OneObjectPerIntent'
      BY <2>1 DEF NamedBound, NothingLeaks, OneObjectPerIntent
    <2>5. FinishedStored => FinishedStored'
      BY <2>1 DEF FinishedStored
    <2> QED
      BY <2>2, <2>3, <2>4, <2>5, LeaveKnows
  <1>2. CASE CommitResult
    <2>1. pc = "commit" /\ held \subseteq DOMAIN xfer /\ \A t \in held : xfer[t].state \in Stored
      BY <1>2 DEF CommitResult, WriterKnows, TypeOK
    <2>2. /\ refs' = refs \cup held /\ UNCHANGED <<store, faults>> /\ Leave(FALSE)
          /\ xfer' = [t \in DOMAIN xfer |-> IF t \in held THEN [xfer[t] EXCEPT !.state = "bound"]
                                            ELSE xfer[t]]
      BY <1>2 DEF CommitResult, BoundByCommit
    <2>3. xfer \in Seq(TransferRows) /\ Len(xfer) \in Nat /\ DOMAIN xfer = 1..Len(xfer)
          /\ \A t \in DOMAIN xfer : xfer[t] \in TransferRows
      <3>1. xfer \in Seq(TransferRows)
        BY DEF TypeOK, TransferRows
      <3> QED
        BY <3>1
    <2>4. ASSUME NEW r \in TransferRows PROVE [r EXCEPT !.state = "bound"] \in TransferRows
      BY <2>4 DEF TransferRows, States
    <2>5. xfer' \in [1..Len(xfer) -> TransferRows]
      BY <2>2, <2>3, <2>4
    <2>6. xfer' \in Seq(TransferRows) /\ Len(xfer') = Len(xfer) /\ DOMAIN xfer' = DOMAIN xfer
      BY <2>3, <2>5
    <2>7. \A u \in DOMAIN xfer : /\ xfer'[u].item = xfer[u].item
                                 /\ xfer'[u].state = IF u \in held THEN "bound" ELSE xfer[u].state
      BY <2>2, <2>3 DEF TransferRows
    <2>8. TypeOK'
      BY <2>1, <2>2, <2>6, LeaveTypes DEF TypeOK
    <2>9. NamedBound' /\ NothingLeaks' /\ OneObjectPerIntent'
      BY <2>1, <2>2, <2>6, <2>7 DEF TypeOK, NamedBound, NothingLeaks, OneObjectPerIntent, Stored
    <2>10. FinishedStored => FinishedStored'
      BY <2>1, <2>2, <2>6, <2>7 DEF FinishedStored
    <2> QED
      BY <2>2, <2>8, <2>9, <2>10, LeaveKnows
  <1>3. CASE CleanDelete
    <2>1. pc = "cleanDelete" /\ store' = store \ {cur} /\ pc' = "cleanMark"
          /\ UNCHANGED <<xfer, refs, active, item, cur, held, faults>>
      BY <1>3 DEF CleanDelete
    <2>2. TypeOK'
      BY <2>1 DEF TypeOK, Labels
    <2>3. WriterKnows' /\ CleanerKnows'
      BY <2>1 DEF TypeOK, WriterKnows, CleanerKnows, WriterLabels, CleanLabels, Protected
    <2>4. NamedBound' /\ NothingLeaks' /\ OneObjectPerIntent'
      BY <2>1 DEF NamedBound, NothingLeaks, OneObjectPerIntent
    <2>5. FinishedStored => FinishedStored'
      BY <2>1 DEF FinishedStored
    <2> QED
      BY <2>2, <2>3, <2>4, <2>5
  <1> QED
    BY <1>1, <1>2, <1>3

\* Every step keeps the invariant.
LEMMA TransferStep == TransferInv /\ [Next]_vars => TransferInv'
  BY QuietSteps, LookupStep, PutStep, StateSteps, NamingSteps DEF Next

\* Every step keeps finished rows with their objects, if a cleanup does not stop between
\* DELETE and the closing of the row.
LEMMA StoredStep ==
    ASSUME "cleanup" \notin Faulty
    PROVE  TransferInv /\ FinishedStored /\ [Next]_vars => FinishedStored'
  <1> SUFFICES ASSUME TransferInv, FinishedStored, [Next]_vars PROVE FinishedStored'
    OBVIOUS
  <1>1. CASE Lookup \/ PutObject \/ MarkPersisted \/ BindObject \/ PublishMediaObject
             \/ CommitResult \/ CleanDelete \/ CleanMark
    BY <1>1, LookupStep, PutStep, StateSteps, NamingSteps
  <1>2. CASE pc # "cleanMark" /\ UNCHANGED durable
    BY <1>2 DEF FinishedStored, durable
  <1>3. CASE pc = "cleanMark" /\ UNCHANGED vars
    BY <1>3 DEF FinishedStored, vars, durable
  <1> QED
    BY <1>1, <1>2, <1>3 DEF Next, Start, HeadObject, Cancelled, Crash, StartCleanup, CleanHead,
       CleanDone, CleanStops, Fault, Clean, vars

-----------------------------------------------------------------------------
\* The invariant holds throughout.
LEMMA TransferInvariant == Spec => []TransferInv
  BY TransferInit, TransferStep, PTL DEF Spec

\* Rows, bucket and flow are always well formed, and a flow past its lookup works on an
\* existing row (persist_object, bind_object, cleanup_orphans).
THEOREM TransferTypes == Spec => []TypeOK
  <1>1. TransferInv => TypeOK
    BY DEF TransferInv
  <1> QED
    BY <1>1, TransferInvariant, PTL

\* The same bytes never have two live rows, whatever crashes, lost answers and cleanups
\* come between an intent and its retry (persist_object).
THEOREM IntentsUnique == Spec => []OneObjectPerIntent
  <1>1. TransferInv => OneObjectPerIntent
    BY DEF TransferInv
  <1> QED
    BY <1>1, TransferInvariant, PTL

\* Every object in the bucket has an open row, so cleanup_orphans can find it.
THEOREM NoLeak == Spec => []NothingLeaks
  <1>1. TransferInv => NothingLeaks
    BY DEF TransferInv
  <1> QED
    BY <1>1, TransferInvariant, PTL

\* No step deletes an object that a row binds or a result names, a cleanup that dies half
\* way included.
THEOREM CleanupSpares == Spec => ProtectedNeverDeleted
  <1>1. TransferInv /\ [Next]_vars =>
          [\A t \in store : (xfer[t].state = "bound" \/ t \in refs) => t \in store']_vars
    <2> SUFFICES ASSUME TransferInv, Next, NEW t \in store, Protected(t) PROVE t \in store'
      BY DEF Protected
    <2>1. CASE CleanDelete
      BY <2>1 DEF CleanDelete, TransferInv, CleanerKnows, CleanLabels
    <2> QED
      BY <2>1 DEF Next, Start, Lookup, HeadObject, PutObject, MarkPersisted, BindObject,
         PublishMediaObject, CommitResult, Cancelled, Crash, StartCleanup, CleanHead, CleanMark,
         CleanDone, CleanStops, Clean, durable
  <1> QED
    BY <1>1, TransferInvariant, PTL DEF Spec, ProtectedNeverDeleted

\* Whatever an artifact or a result names is bound and exists, as long as no cleanup stops
\* between DELETE and the closing of its row (object_storage.cleanup_orphans; the run
\* object_cleanup shows what happens otherwise).
THEOREM BoundObjectsExist == ("cleanup" \notin Faulty) => (Spec => []BoundExists)
  <1> SUFFICES ASSUME "cleanup" \notin Faulty PROVE Spec => []BoundExists
    OBVIOUS
  <1>1. TransferInv /\ FinishedStored => BoundExists
    BY DEF TransferInv, FinishedStored, Stored, BoundExists, NamedBound, CleanerKnows, CleanLabels,
       Protected
  <1>2. TransferInv /\ FinishedStored /\ [Next]_vars => FinishedStored'
    BY StoredStep
  <1> QED
    BY <1>1, <1>2, TransferInit, TransferStep, PTL DEF Spec

=============================================================================
