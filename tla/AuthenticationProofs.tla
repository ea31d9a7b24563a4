------------------------- MODULE AuthenticationProofs -------------------------
(***************************************************************************)
(* Sessions, codes, grants and rate limits, for any number of users,       *)
(* logins, rotations, requests, retries, crashes and cleanups: a session   *)
(* family is one device and a user has no more active families than the    *)
(* code allows, every variable stays well formed, the answers to a         *)
(* challenge are bounded, a grant is spent once, and a window lets no more *)
(* through than its limit.                                                 *)
(***************************************************************************)
EXTENDS Authentication, FiniteSetTheorems, WellFoundedInduction, TLAPS

-----------------------------------------------------------------------------
(* The sessions of an account.                                             *)

\* A family with a session that still authenticates, apart from its user and phone.
HasActive(f) == \E j \in DOMAIN f.sessions : ActiveSession(f, f.sessions[j])

\* One session of a family is live at most, and none after a replay.
OneDevice(f) ==
    /\ \A j, k \in DOMAIN f.sessions :
         LiveLeaf(f.sessions[j]) /\ LiveLeaf(f.sessions[k]) => j = k
    /\ f.replayed => \A j \in DOMAIN f.sessions : ~LiveLeaf(f.sessions[j])

Device(f) == f \in Families /\ OneDevice(f)

\* The families of one user.
UserSessions(fs) ==
    /\ fs \in Seq(Families)
    /\ \A i \in DOMAIN fs : OneDevice(fs[i])
    /\ Cardinality(ActiveFamilies(fs)) <= MaxFamilies

SessionInv ==
    /\ DOMAIN users = Users
    /\ families \in [Users -> Seq(Families)]
    /\ \A u \in Users : UserSessions(families[u])

\* What a step makes of a family: the same device, never active or unrevoked again.
Later(f, g) ==
    /\ Device(g)
    /\ f.revoked => g.revoked
    /\ HasActive(g) => HasActive(f)

LaterAll(fs, gs) ==
    /\ gs \in Seq(Families) /\ Len(gs) = Len(fs)
    /\ \A i \in DOMAIN fs : Later(fs[i], gs[i])

\* What a step makes of the families of a user who is left with the status given: later
\* ones, one more after a login, none after an erasure.
UserMove(status, fs, gs) ==
    \/ LaterAll(fs, gs)
    \/ /\ status = "active"
       /\ \E hs \in Seq(Families), access \in {"none", "live"} :
             LaterAll(fs, hs) /\ gs = LoggedIn(hs, access)
    \/ status = "erased" /\ gs = <<>>

FamiliesStep ==
    /\ families' \in [Users -> Seq(Families)]
    /\ \A u \in Users : UserMove(users'[u], families[u], families'[u])

-----------------------------------------------------------------------------
(* Finite sets of positions.                                               *)

\* A set whose elements are all equal has one at most.
LEMMA AtMostOne ==
    ASSUME NEW S, IsFiniteSet(S), \A x, y \in S : x = y
    PROVE  Cardinality(S) <= 1
  <1>1. CASE S = {}
    BY <1>1, FS_EmptySet
  <1>2. ASSUME NEW x \in S PROVE Cardinality(S) <= 1
    <2>1. S = {x}
      BY <1>2
    <2> QED
      BY <2>1, FS_Singleton
  <1> QED
    BY <1>1, <1>2

\* A nonempty set of naturals has a least element.
LEMMA LeastExists ==
    ASSUME NEW S \in SUBSET Nat, S # {}
    PROVE  \E x \in S : \A y \in S : x <= y
  <1> DEFINE R == OpToRel(<, Nat)
  <1>1. IsWellFoundedOn(R, Nat)
    BY NatLessThanWellFounded
  <1>2. \A x, y \in Nat : x < y => <<x, y>> \in R
    BY DEF OpToRel
  <1> HIDE DEF R
  <1>3. PICK m \in S : \A y \in S : ~(<<y, m>> \in R)
    BY <1>1, WFMin
  <1>4. ASSUME NEW y \in S PROVE m <= y
    <2>1. m \in Nat /\ y \in Nat /\ ~(y < m)
      BY <1>2, <1>3
    <2> QED
      BY <2>1
  <1> QED
    BY <1>4

\* Positions of a sequence are a finite set.
LEMMA PositionsFinite ==
    ASSUME NEW n \in Nat, NEW S \in SUBSET (1..n)
    PROVE  IsFiniteSet(S) /\ Cardinality(S) \in Nat
  <1>1. IsFiniteSet(1..n)
    BY FS_Interval
  <1> QED
    BY <1>1, FS_Subset, FS_CardinalityType

-----------------------------------------------------------------------------
(* What the operators on families do.                                      *)

\* A revoked session is a session, and not live.
LEMMA RevokedSessionType ==
    ASSUME NEW s \in Sessions
    PROVE  RevokedSession(s) \in Sessions /\ ~LiveLeaf(RevokedSession(s))
  BY DEF Sessions, LiveLeaf, RevokedSession, RevokedToken

\* The fields of a family.
LEMMA FamilyFields ==
    ASSUME NEW f \in Families
    PROVE  /\ f.revoked \in BOOLEAN /\ f.aged \in BOOLEAN /\ f.replayed \in BOOLEAN
           /\ f.sessions \in Seq(Sessions) /\ Len(f.sessions) \in Nat
           /\ DOMAIN f.sessions = 1..Len(f.sessions)
           /\ \A j \in DOMAIN f.sessions : f.sessions[j] \in Sessions
  <1>1. f.revoked \in BOOLEAN /\ f.aged \in BOOLEAN /\ f.replayed \in BOOLEAN
        /\ f.sessions \in Seq(Sessions)
    BY DEF Families
  <1> QED
    BY <1>1

\* A family given other sessions and flags.
LEMMA FamilyMade ==
    ASSUME NEW r \in BOOLEAN, NEW a \in BOOLEAN, NEW b \in BOOLEAN, NEW s \in Seq(Sessions),
           NEW f, f = [revoked |-> r, aged |-> a, replayed |-> b, sessions |-> s]
    PROVE  f \in Families
  BY DEF Families

\* A family that stays as it is.
LEMMA SameFamily ==
    ASSUME NEW f, Device(f)
    PROVE  Later(f, f)
  BY DEF Later

\* Revoking a family ends all its sessions.
LEMMA RevokedFamilyLater ==
    ASSUME NEW f, Device(f)
    PROVE  /\ Later(f, RevokedFamily(f)) /\ RevokedFamily(f).revoked
           /\ ~HasActive(RevokedFamily(f))
           /\ \A j \in DOMAIN RevokedFamily(f).sessions : ~LiveLeaf(RevokedFamily(f).sessions[j])
  <1> DEFINE s == [j \in DOMAIN f.sessions |-> RevokedSession(f.sessions[j])]
             g == RevokedFamily(f)
  <1>1. /\ f \in Families /\ f.sessions \in Seq(Sessions) /\ Len(f.sessions) \in Nat
        /\ DOMAIN f.sessions = 1..Len(f.sessions)
        /\ \A j \in DOMAIN f.sessions : f.sessions[j] \in Sessions
    BY FamilyFields DEF Device
  <1>2. \A j \in DOMAIN f.sessions :
          RevokedSession(f.sessions[j]) \in Sessions /\ ~LiveLeaf(RevokedSession(f.sessions[j]))
    BY <1>1, RevokedSessionType
  <1>3. s \in Seq(Sessions) /\ DOMAIN s = DOMAIN f.sessions
    BY <1>1, <1>2
  <1>4. \A j \in DOMAIN s : ~LiveLeaf(s[j])
    BY <1>2
  <1>5. g = [f EXCEPT !.revoked = TRUE, !.sessions = s]
    BY DEF RevokedFamily
  <1> HIDE DEF s, g
  <1>6. g \in Families /\ g.revoked /\ g.sessions = s
    BY <1>1, <1>3, <1>5 DEF Families
  <1>7. ~HasActive(g) /\ OneDevice(g)
    BY <1>4, <1>6 DEF HasActive, OneDevice, ActiveSession
  <1> QED
    BY <1>4, <1>6, <1>7 DEF Later, Device, g

\* Rotation ends the live session and starts another.
LEMMA RotatedLater ==
    ASSUME NEW f, Device(f), NEW j \in DOMAIN f.sessions, ActiveSession(f, f.sessions[j]),
           NEW access \in {"none", "live"}
    PROVE  Later(f, Rotated(f, j, access))
  <1> DEFINE old == [RevokedSession(f.sessions[j]) EXCEPT !.replaced = TRUE]
             new == NewSession(access)
             t == [f.sessions EXCEPT ![j] = old]
             s == Append(t, new)
             g == Rotated(f, j, access)
  <1>1. /\ f \in Families /\ f.sessions \in Seq(Sessions) /\ Len(f.sessions) \in Nat
        /\ DOMAIN f.sessions = 1..Len(f.sessions)
        /\ \A k \in DOMAIN f.sessions : f.sessions[k] \in Sessions
    BY FamilyFields DEF Device
  <1>2. old \in Sessions /\ ~LiveLeaf(old)
    <2>1. RevokedSession(f.sessions[j]) \in Sessions
      BY <1>1, RevokedSessionType
    <2> QED
      BY <2>1 DEF Sessions, LiveLeaf
  <1>3. new \in Sessions
    BY DEF NewSession, Sessions
  <1>4. g = [f EXCEPT !.sessions = s]
    BY DEF Rotated
  <1> HIDE DEF old, new
  <1>5. /\ t \in Seq(Sessions) /\ Len(t) = Len(f.sessions) /\ t[j] = old
        /\ \A k \in DOMAIN f.sessions : k # j => t[k] = f.sessions[k]
    BY <1>1, <1>2
  <1> HIDE DEF t
  <1>6. /\ s \in Seq(Sessions) /\ Len(s) = Len(f.sessions) + 1
        /\ DOMAIN s = 1..(Len(f.sessions) + 1) /\ s[Len(f.sessions) + 1] = new
        /\ \A k \in DOMAIN f.sessions : s[k] = t[k]
    BY <1>1, <1>3, <1>5
  <1> HIDE DEF s, g
  <1>7. g \in Families /\ g.sessions = s /\ g.replayed = f.replayed /\ g.revoked = f.revoked
    BY <1>1, <1>4, <1>6 DEF Families
  <1>8. \A k \in DOMAIN f.sessions : ~LiveLeaf(s[k])
    <2>1. LiveLeaf(f.sessions[j])
      BY DEF ActiveSession
    <2>2. \A k \in DOMAIN f.sessions : k # j => ~LiveLeaf(f.sessions[k])
      BY <2>1 DEF Device, OneDevice
    <2> QED
      BY <1>2, <1>5, <1>6, <2>2
  <1>9. \A k \in DOMAIN s : LiveLeaf(s[k]) => k = Len(f.sessions) + 1
    BY <1>1, <1>6, <1>8
  <1>10. ~f.replayed
    BY DEF Device, OneDevice, ActiveSession
  <1>11. OneDevice(g)
    BY <1>7, <1>9, <1>10 DEF OneDevice
  <1>12. HasActive(f)
    BY DEF HasActive
  <1> QED
    BY <1>7, <1>11, <1>12 DEF Later, Device, g

\* A replay ends the family.
LEMMA ReusedLater ==
    ASSUME NEW f, Device(f)
    PROVE  Later(f, Reused(f))
  <1> DEFINE h == RevokedFamily(f)
             g == Reused(f)
  <1>1. /\ h \in Families /\ h.revoked /\ \A j \in DOMAIN h.sessions : ~LiveLeaf(h.sessions[j])
    BY RevokedFamilyLater DEF Later, Device
  <1>2. g = [h EXCEPT !.replayed = TRUE]
    BY DEF Reused
  <1> HIDE DEF h, g
  <1>3. g \in Families /\ g.revoked /\ g.sessions = h.sessions
    BY <1>1, <1>2 DEF Families
  <1>4. OneDevice(g) /\ ~HasActive(g)
    BY <1>1, <1>3 DEF OneDevice, HasActive, ActiveSession
  <1> QED
    BY <1>3, <1>4 DEF Later, Device, g

\* One session changes and does not come back to life.
LEMMA SessionLater ==
    ASSUME NEW f, Device(f), NEW j \in DOMAIN f.sessions, NEW s \in Sessions,
           LiveLeaf(s) => LiveLeaf(f.sessions[j]), f.sessions[j].expired => s.expired
    PROVE  Later(f, [f EXCEPT !.sessions = [f.sessions EXCEPT ![j] = s]])
  <1> DEFINE t == [f.sessions EXCEPT ![j] = s]
             g == [f EXCEPT !.sessions = t]
  <1>1. /\ f \in Families /\ f.sessions \in Seq(Sessions) /\ Len(f.sessions) \in Nat
        /\ DOMAIN f.sessions = 1..Len(f.sessions)
    BY FamilyFields DEF Device
  <1>2. /\ t \in Seq(Sessions) /\ DOMAIN t = DOMAIN f.sessions /\ t[j] = s
        /\ \A k \in DOMAIN f.sessions : k # j => t[k] = f.sessions[k]
    BY <1>1
  <1> HIDE DEF t
  <1>3. /\ g \in Families /\ g.sessions = t /\ g.replayed = f.replayed /\ g.revoked = f.revoked
        /\ g.aged = f.aged
    BY <1>1, <1>2 DEF Families
  <1> HIDE DEF g
  <1>4. \A k \in DOMAIN f.sessions : LiveLeaf(t[k]) => LiveLeaf(f.sessions[k])
    BY <1>2
  <1>5. OneDevice(g)
    BY <1>2, <1>3, <1>4 DEF Device, OneDevice
  <1>6. HasActive(g) => HasActive(f)
    BY <1>2, <1>3, <1>4 DEF HasActive, ActiveSession
  <1> QED
    BY <1>3, <1>5, <1>6 DEF Later, Device, g, t

\* A family reaches its age.
LEMMA AgedLater ==
    ASSUME NEW f, Device(f)
    PROVE  Later(f, [f EXCEPT !.aged = TRUE])
  <1> DEFINE g == [f EXCEPT !.aged = TRUE]
  <1>1. /\ g \in Families /\ g.sessions = f.sessions /\ g.replayed = f.replayed
        /\ g.revoked = f.revoked /\ g.aged
    BY DEF Device, Families
  <1> HIDE DEF g
  <1>2. OneDevice(g) /\ ~HasActive(g)
    BY <1>1 DEF Device, OneDevice, HasActive, ActiveSession
  <1> QED
    BY <1>1, <1>2 DEF Later, Device, g

-----------------------------------------------------------------------------
(* The families of one user.                                               *)

\* The families that stay as they are.
LEMMA SameAll ==
    ASSUME NEW fs, UserSessions(fs)
    PROVE  LaterAll(fs, fs)
  <1>1. fs \in Seq(Families) /\ \A i \in DOMAIN fs : fs[i] \in Families
    BY DEF UserSessions
  <1> QED
    BY <1>1, SameFamily DEF UserSessions, LaterAll, Device

\* One family changes.
LEMMA OneLater ==
    ASSUME NEW fs, UserSessions(fs), NEW i \in DOMAIN fs, NEW g, Later(fs[i], g)
    PROVE  LaterAll(fs, [fs EXCEPT ![i] = g])
  <1> DEFINE gs == [fs EXCEPT ![i] = g]
  <1>1. /\ fs \in Seq(Families) /\ g \in Families
    BY DEF UserSessions, Later, Device
  <1>2. /\ gs \in Seq(Families) /\ Len(gs) = Len(fs) /\ gs[i] = g
        /\ \A k \in DOMAIN fs : k # i => gs[k] = fs[k]
    BY <1>1
  <1>3. \A k \in DOMAIN fs : Later(fs[k], fs[k])
    BY SameAll DEF LaterAll
  <1> HIDE DEF gs
  <1> QED
    BY <1>2, <1>3 DEF LaterAll, gs

\* All families are revoked.
LEMMA RevokedAllLater ==
    ASSUME NEW fs, UserSessions(fs)
    PROVE  LaterAll(fs, RevokedAll(fs)) /\ \A i \in DOMAIN fs : RevokedAll(fs)[i].revoked
  <1>1. fs \in Seq(Families) /\ \A i \in DOMAIN fs : Device(fs[i])
    BY DEF UserSessions, Device
  <1>2. \A i \in DOMAIN fs : Later(fs[i], RevokedFamily(fs[i])) /\ RevokedFamily(fs[i]).revoked
                             /\ RevokedFamily(fs[i]) \in Families
    BY <1>1, RevokedFamilyLater DEF Later, Device
  <1> DEFINE gs == RevokedAll(fs)
  <1>3. gs \in Seq(Families) /\ Len(gs) = Len(fs) /\ \A i \in DOMAIN fs : gs[i] = RevokedFamily(fs[i])
    BY <1>1, <1>2 DEF RevokedAll
  <1> HIDE DEF gs
  <1> QED
    BY <1>2, <1>3 DEF LaterAll, gs

\* Eviction leaves fewer than MaxFamilies active families.
LEMMA EvictedLater ==
    ASSUME NEW fs, UserSessions(fs)
    PROVE  LaterAll(fs, Evicted(fs)) /\ Cardinality(ActiveFamilies(Evicted(fs))) < MaxFamilies
  <1> DEFINE gs == Evicted(fs)
             A == ActiveFamilies(fs)
             From(i) == {k \in A : k >= i}
             B == ActiveFamilies(gs)
  <1>1. fs \in Seq(Families) /\ Len(fs) \in Nat /\ DOMAIN fs = 1..Len(fs)
        /\ \A i \in DOMAIN fs : Device(fs[i])
    BY DEF UserSessions, Device
  <1>2. MaxFamilies \in Nat /\ 0 < MaxFamilies
    BY AccountAssumption
  <1>3. \A i \in DOMAIN fs : Later(fs[i], RevokedFamily(fs[i])) /\ Later(fs[i], fs[i])
                             /\ RevokedFamily(fs[i]) \in Families
                             /\ ~HasActive(RevokedFamily(fs[i]))
    BY <1>1, RevokedFamilyLater, SameFamily DEF Later, Device
  <1>4. gs = [i \in DOMAIN fs |-> IF i \in A /\ Cardinality(From(i)) >= MaxFamilies
                                 THEN RevokedFamily(fs[i]) ELSE fs[i]]
    BY DEF Evicted
  <1>5. A \in SUBSET (1..Len(fs)) /\ \A i \in DOMAIN fs : i \in A <=> HasActive(fs[i])
    BY <1>1 DEF ActiveFamilies, HasActive
  <1> HIDE DEF A, gs
  <1>6. /\ gs \in Seq(Families) /\ Len(gs) = Len(fs) /\ DOMAIN gs = DOMAIN fs
        /\ \A i \in DOMAIN fs : gs[i] = IF i \in A /\ Cardinality(From(i)) >= MaxFamilies
                                        THEN RevokedFamily(fs[i]) ELSE fs[i]
    <2>1. \A i \in DOMAIN fs : fs[i] \in Families /\ RevokedFamily(fs[i]) \in Families
      BY <1>1, <1>3
    <2>2. gs \in [1..Len(fs) -> Families]
      BY <1>1, <1>4, <2>1
    <2> QED
      BY <1>1, <1>4, <2>2
  <1>7. LaterAll(fs, gs)
    BY <1>3, <1>6 DEF LaterAll
  <1>8. B \in SUBSET A /\ \A i \in B : ~(Cardinality(From(i)) >= MaxFamilies)
    BY <1>3, <1>5, <1>6 DEF ActiveFamilies, HasActive
  <1>9. \A i : From(i) \in SUBSET (1..Len(fs))
    BY <1>5
  <1> HIDE DEF B
  <1>10. ASSUME B = {} PROVE Cardinality(B) < MaxFamilies
    BY <1>2, <1>10, FS_EmptySet
  <1>11. ASSUME B # {} PROVE Cardinality(B) < MaxFamilies
    <2>1. B \in SUBSET Nat
      BY <1>1, <1>5, <1>8
    <2>2. PICK m \in B : \A i \in B : m <= i
      BY <1>11, <2>1, LeastExists
    <2>3. B \in SUBSET From(m)
      BY <1>8, <2>1, <2>2
    <2>4. IsFiniteSet(From(m)) /\ Cardinality(From(m)) \in Nat
      BY <1>1, <1>9, PositionsFinite
    <2>5. Cardinality(B) <= Cardinality(From(m)) /\ Cardinality(B) \in Nat
      BY <2>3, <2>4, FS_Subset, FS_CardinalityType
    <2>6. ~(Cardinality(From(m)) >= MaxFamilies)
      BY <1>8, <2>2
    <2> QED
      BY <1>2, <2>4, <2>5, <2>6
  <1> QED
    BY <1>7, <1>10, <1>11 DEF B, gs

\* Active families stay or go.
LEMMA LaterLimit ==
    ASSUME NEW fs, UserSessions(fs), NEW gs, LaterAll(fs, gs)
    PROVE  UserSessions(gs)
  <1>1. fs \in Seq(Families) /\ Len(fs) \in Nat /\ DOMAIN fs = 1..Len(fs)
        /\ gs \in Seq(Families) /\ DOMAIN gs = DOMAIN fs
    BY DEF UserSessions, LaterAll
  <1>2. \A i \in DOMAIN fs : OneDevice(gs[i]) /\ (HasActive(gs[i]) => HasActive(fs[i]))
    BY DEF LaterAll, Later, Device
  <1>3. ActiveFamilies(fs) \in SUBSET (1..Len(fs))
    BY <1>1 DEF ActiveFamilies
  <1>4. ActiveFamilies(gs) \in SUBSET ActiveFamilies(fs)
    BY <1>1, <1>2 DEF ActiveFamilies, HasActive
  <1>5. IsFiniteSet(ActiveFamilies(fs)) /\ Cardinality(ActiveFamilies(fs)) \in Nat
    BY <1>1, <1>3, PositionsFinite
  <1>6. Cardinality(ActiveFamilies(gs)) <= Cardinality(ActiveFamilies(fs))
        /\ Cardinality(ActiveFamilies(gs)) \in Nat
    BY <1>4, <1>5, FS_Subset, FS_CardinalityType
  <1>7. Cardinality(ActiveFamilies(fs)) <= MaxFamilies /\ MaxFamilies \in Nat
    BY AccountAssumption DEF UserSessions
  <1>8. Cardinality(ActiveFamilies(gs)) <= MaxFamilies
    BY <1>5, <1>6, <1>7
  <1> QED
    BY <1>1, <1>2, <1>8 DEF UserSessions

\* A login evicts before it adds.
LEMMA LoginLimit ==
    ASSUME NEW fs, UserSessions(fs), NEW access \in {"none", "live"}
    PROVE  /\ UserSessions(LoggedIn(fs, access)) /\ Len(LoggedIn(fs, access)) = Len(fs) + 1
           /\ \A i \in DOMAIN fs : LoggedIn(fs, access)[i] = Evicted(fs)[i]
  <1> DEFINE es == Evicted(fs)
             f == [revoked |-> FALSE, aged |-> FALSE, replayed |-> FALSE,
                   sessions |-> <<NewSession(access)>>]
             gs == Append(es, f)
  <1>1. LaterAll(fs, es) /\ Cardinality(ActiveFamilies(es)) < MaxFamilies /\ UserSessions(es)
    BY EvictedLater, LaterLimit
  <1>2. es \in Seq(Families) /\ Len(es) \in Nat /\ DOMAIN es = 1..Len(es) /\ Len(es) = Len(fs)
        /\ DOMAIN fs = 1..Len(fs) /\ fs \in Seq(Families)
    BY <1>1 DEF UserSessions, LaterAll
  <1>3. NewSession(access) \in Sessions
    BY DEF NewSession, Sessions
  <1>4. f \in Families /\ f.sessions = <<NewSession(access)>> /\ ~f.replayed
    <2>1. <<NewSession(access)>> \in Seq(Sessions)
      BY <1>3
    <2> QED
      BY <2>1 DEF Families
  <1>5. OneDevice(f)
    BY <1>4 DEF OneDevice
  <1> HIDE DEF es, f
  <1>6. /\ gs \in Seq(Families) /\ Len(gs) = Len(es) + 1 /\ gs[Len(es) + 1] = f
        /\ DOMAIN gs = 1..(Len(es) + 1) /\ \A i \in DOMAIN es : gs[i] = es[i]
    BY <1>2, <1>4
  <1> HIDE DEF gs
  <1>7. \A i \in DOMAIN gs : OneDevice(gs[i])
    <2>1. \A i \in DOMAIN gs : i \in DOMAIN es \/ i = Len(es) + 1
      BY <1>2, <1>6
    <2> QED
      BY <1>1, <1>5, <1>6, <2>1 DEF UserSessions
  <1>8. ActiveFamilies(es) \in SUBSET (1..Len(es))
    BY <1>2 DEF ActiveFamilies
  <1>9. ActiveFamilies(gs) \in SUBSET (ActiveFamilies(es) \cup {Len(es) + 1})
    <2> SUFFICES ASSUME NEW i \in ActiveFamilies(gs), i # Len(es) + 1 PROVE i \in ActiveFamilies(es)
      OBVIOUS
    <2>1. i \in DOMAIN gs /\ i \in DOMAIN es
      BY <1>2, <1>6 DEF ActiveFamilies
    <2> QED
      BY <1>6, <2>1 DEF ActiveFamilies
  <1>10. IsFiniteSet(ActiveFamilies(es)) /\ Cardinality(ActiveFamilies(es)) \in Nat
    BY <1>2, <1>8, PositionsFinite
  <1>11. /\ IsFiniteSet(ActiveFamilies(es) \cup {Len(es) + 1})
         /\ Cardinality(ActiveFamilies(es) \cup {Len(es) + 1}) <= Cardinality(ActiveFamilies(es)) + 1
         /\ Cardinality(ActiveFamilies(es) \cup {Len(es) + 1}) \in Nat
    BY <1>10, FS_AddElement, FS_CardinalityType
  <1>12. Cardinality(ActiveFamilies(gs)) <= Cardinality(ActiveFamilies(es) \cup {Len(es) + 1})
         /\ Cardinality(ActiveFamilies(gs)) \in Nat
    BY <1>9, <1>11, FS_Subset, FS_CardinalityType
  <1>13. Cardinality(ActiveFamilies(gs)) <= MaxFamilies
    BY <1>1, <1>10, <1>11, <1>12, AccountAssumption
  <1>14. UserSessions(gs)
    BY <1>6, <1>7, <1>13 DEF UserSessions
  <1>15. gs = LoggedIn(fs, access)
    BY DEF LoggedIn, gs, es, f
  <1> QED
    BY <1>2, <1>6, <1>14, <1>15 DEF es

\* A user who never logged in has none.
LEMMA NoSessions == UserSessions(<<>>)
  <1>1. ActiveFamilies(<<>>) = {}
    BY DEF ActiveFamilies
  <1>2. Cardinality({}) <= MaxFamilies
    BY FS_EmptySet, AccountAssumption
  <1> QED
    BY <1>1, <1>2 DEF UserSessions

\* So every move keeps what is promised of a user's families.
LEMMA MoveKeeps ==
    ASSUME NEW fs, UserSessions(fs), NEW gs, NEW status, UserMove(status, fs, gs)
    PROVE  UserSessions(gs)
  <1>1. CASE LaterAll(fs, gs)
    BY <1>1, LaterLimit
  <1>2. ASSUME NEW hs \in Seq(Families), NEW access \in {"none", "live"},
               LaterAll(fs, hs), gs = LoggedIn(hs, access)
        PROVE  UserSessions(gs)
    BY <1>2, LaterLimit, LoginLimit
  <1>3. CASE gs = <<>>
    BY <1>3, NoSessions
  <1> QED
    BY <1>1, <1>2, <1>3 DEF UserMove

-----------------------------------------------------------------------------
(* The steps.                                                              *)

\* The families of one user change.
LEMMA OneUserStep ==
    ASSUME SessionInv, NEW u, NEW fs, families' = [families EXCEPT ![u] = fs],
           u \in Users => UserMove(users'[u], families[u], fs)
    PROVE  FamiliesStep
  <1>1. \A v \in Users : UserMove(users'[v], families[v], families[v])
    BY SameAll DEF SessionInv, UserMove
  <1>2. u \in Users => fs \in Seq(Families)
    BY MoveKeeps DEF SessionInv, UserSessions
  <1>3. families \in [Users -> Seq(Families)]
    BY DEF SessionInv
  <1>4. families' \in [Users -> Seq(Families)]
    BY <1>2, <1>3
  <1>5. \A v \in Users : families'[v] = IF v = u THEN fs ELSE families[v]
    BY <1>3
  <1> QED
    BY <1>1, <1>4, <1>5 DEF FamiliesStep

\* One family changes.
LEMMA OneFamilyStep ==
    ASSUME SessionInv, NEW u \in Users, NEW i \in DOMAIN families[u], NEW f,
           Later(families[u][i], f), families' = [families EXCEPT ![u][i] = f]
    PROVE  FamiliesStep
  <1>1. families' = [families EXCEPT ![u] = [families[u] EXCEPT ![i] = f]]
    OBVIOUS
  <1>2. UserMove(users'[u], families[u], [families[u] EXCEPT ![i] = f])
    BY OneLater DEF SessionInv, UserMove
  <1> QED
    BY <1>1, <1>2, OneUserStep

\* One session changes and does not come back to life.
LEMMA OneSessionStep ==
    ASSUME SessionInv, NEW u \in Users, NEW i \in DOMAIN families[u],
           NEW j \in DOMAIN families[u][i].sessions, NEW s \in Sessions,
           LiveLeaf(s) => LiveLeaf(families[u][i].sessions[j]),
           families[u][i].sessions[j].expired => s.expired,
           families' = [families EXCEPT ![u][i].sessions[j] = s]
    PROVE  FamiliesStep
  <1> DEFINE f == families[u][i]
             g == [f EXCEPT !.sessions = [f.sessions EXCEPT ![j] = s]]
  <1>1. Device(f)
    BY DEF SessionInv, UserSessions, Device
  <1>2. Later(f, g)
    BY <1>1, SessionLater
  <1>3. families' = [families EXCEPT ![u][i] = g]
    OBVIOUS
  <1> QED
    BY <1>2, <1>3, OneFamilyStep

\* Families that stay.
LEMMA QuietFamilies ==
    ASSUME SessionInv, UNCHANGED families
    PROVE  FamiliesStep
  BY SameAll DEF SessionInv, UserMove, FamiliesStep

\* A login, or one after everything was revoked; a revocation; an erasure.
LEMMA LoginMoves ==
    ASSUME NEW fs, UserSessions(fs), NEW access \in {"none", "live"}, NEW status
    PROVE  /\ UserMove("active", fs, LoggedIn(fs, access))
           /\ UserMove("active", fs, LoggedIn(RevokedAll(fs), access))
           /\ UserMove(status, fs, RevokedAll(fs)) /\ UserMove(status, fs, fs)
           /\ UserMove("erased", fs, <<>>)
  <1>1. fs \in Seq(Families) /\ RevokedAll(fs) \in Seq(Families)
    BY RevokedAllLater DEF UserSessions, LaterAll
  <1> QED
    BY <1>1, SameAll, RevokedAllLater DEF UserMove

\* Operations that log in, revoke everything or erase.
LEMMA LoginStep ==
    ASSUME SessionInv, NEW u, NEW access \in {"none", "live"}, u \in Users => users'[u] = "active",
           \/ families' = [families EXCEPT ![u] = LoggedIn(families[u], access)]
           \/ families' = [families EXCEPT ![u] = LoggedIn(RevokedAll(families[u]), access)]
    PROVE  FamiliesStep
  <1>1. u \in Users => UserSessions(families[u])
    BY DEF SessionInv
  <1> QED
    BY <1>1, LoginMoves, OneUserStep

LEMMA RevocationStep ==
    ASSUME SessionInv, NEW u, families' = [families EXCEPT ![u] = RevokedAll(families[u])]
    PROVE  FamiliesStep
  <1>1. u \in Users => UserSessions(families[u])
    BY DEF SessionInv
  <1>2. u \in Users => UserMove(users'[u], families[u], RevokedAll(families[u]))
    BY <1>1, RevokedAllLater DEF UserMove
  <1> QED
    BY <1>2, OneUserStep

LEMMA ErasureStep ==
    ASSUME SessionInv, NEW u, DeleteOwnedRows(u)
    PROVE  FamiliesStep
  <1>1. families' = [families EXCEPT ![u] = <<>>] /\ (u \in Users => users'[u] = "erased")
    BY DEF DeleteOwnedRows, SessionInv
  <1>2. u \in Users => UserMove(users'[u], families[u], <<>>)
    BY <1>1 DEF UserMove
  <1> QED
    BY <1>1, <1>2, OneUserStep

\* The operations on sessions of the core and of the requests.
LEMMA SessionSteps ==
    ASSUME SessionInv, NEW u \in Registered, NEW i \in DOMAIN families[u],
           NEW j \in DOMAIN families[u][i].sessions,
           \/ RevokeSession(u, i, j) \/ RotateSession(u, i, j) \/ RefreshSession(u, i, j)
           \/ LogoutCurrentSession(u, i, j) \/ AccessExpires(u, i, j) \/ SessionExpires(u, i, j)
    PROVE  FamiliesStep
  <1> DEFINE f == families[u][i]
             s == f.sessions[j]
  <1>1. u \in Users /\ Device(f) /\ s \in Sessions
    <2>1. u \in Users
      BY DEF Registered
    <2>2. Device(f)
      BY <2>1 DEF SessionInv, UserSessions, Device
    <2> QED
      BY <2>1, <2>2, FamilyFields DEF Device
  <1>2. CASE RevokeSession(u, i, j)
    <2> DEFINE t == [s EXCEPT !.revoked = TRUE]
    <2>1. t \in Sessions /\ ~LiveLeaf(t) /\ (s.expired => t.expired)
      BY <1>1 DEF Sessions, LiveLeaf
    <2>2. families' = [families EXCEPT ![u][i].sessions[j] = t]
      BY <1>2 DEF RevokeSession
    <2> QED
      BY <1>1, <2>1, <2>2, OneSessionStep
  <1>3. CASE RotateSession(u, i, j)
    <2>1. ActiveSession(f, s) /\ families' = [families EXCEPT ![u][i] = Rotated(f, j, "none")]
      BY <1>3 DEF RotateSession, SessionIsActive
    <2> QED
      BY <1>1, <2>1, RotatedLater, OneFamilyStep
  <1>4. CASE RefreshSession(u, i, j)
    <2>1. CASE SessionIsActive(u, i, j) /\ families' = [families EXCEPT ![u][i] = Rotated(f, j, "live")]
      <3>1. ActiveSession(f, s)
        BY <2>1 DEF SessionIsActive
      <3> QED
        BY <1>1, <2>1, <3>1, RotatedLater, OneFamilyStep
    <2>2. CASE families' = [families EXCEPT ![u][i] = Reused(f)]
      BY <1>1, <2>2, ReusedLater, OneFamilyStep
    <2> QED
      BY <1>4, <2>1, <2>2 DEF RefreshSession
  <1>5. CASE LogoutCurrentSession(u, i, j)
    <2>1. RevokedSession(s) \in Sessions /\ ~LiveLeaf(RevokedSession(s))
      BY <1>1, RevokedSessionType
    <2>2. s.expired => RevokedSession(s).expired
      BY <1>1 DEF RevokedSession, RevokedToken, Sessions
    <2>3. families' = [families EXCEPT ![u][i].sessions[j] = RevokedSession(s)]
      BY <1>5 DEF LogoutCurrentSession
    <2> QED
      BY <1>1, <2>1, <2>2, <2>3, OneSessionStep
  <1>6. CASE AccessExpires(u, i, j)
    <2> DEFINE t == [s EXCEPT !.access = "expired"]
    <2>1. t \in Sessions /\ (LiveLeaf(t) => LiveLeaf(s)) /\ (s.expired => t.expired)
      BY <1>1 DEF Sessions, LiveLeaf
    <2>2. families' = [families EXCEPT ![u][i].sessions[j] = t]
      BY <1>6 DEF AccessExpires
    <2> QED
      BY <1>1, <2>1, <2>2, OneSessionStep
  <1>7. CASE SessionExpires(u, i, j)
    <2> DEFINE t == [s EXCEPT !.expired = TRUE]
    <2>1. t \in Sessions /\ (LiveLeaf(t) => LiveLeaf(s)) /\ t.expired
      BY <1>1 DEF Sessions, LiveLeaf
    <2>2. families' = [families EXCEPT ![u][i].sessions[j] = t]
      BY <1>7 DEF SessionExpires
    <2> QED
      BY <1>1, <2>1, <2>2, OneSessionStep
  <1> QED
    BY <1>2, <1>3, <1>4, <1>5, <1>6, <1>7

\* Blocking a phone revokes the families of its holders.
LEMMA BlockStep ==
    ASSUME SessionInv, NEW op, NEW p, AdministrativeBlockPhone(op, p)
    PROVE  FamiliesStep
  <1>1. CASE families' = families
    BY <1>1, QuietFamilies
  <1>2. CASE families' = RevokedHolders(p)
    <2>1. \A u \in Users : families'[u] = RevokedAll(families[u]) \/ families'[u] = families[u]
      BY <1>2 DEF RevokedHolders
    <2>2. \A u \in Users : UserMove(users'[u], families[u], families'[u])
      BY <2>1, SameAll, RevokedAllLater DEF SessionInv, UserMove
    <2>3. \A u \in Users : families'[u] \in Seq(Families)
      BY <2>2, MoveKeeps DEF SessionInv, UserSessions
    <2>4. families' \in [Users -> Seq(Families)]
      BY <1>2, <2>3 DEF RevokedHolders
    <2> QED
      BY <2>2, <2>4 DEF FamiliesStep
  <1> QED
    BY <1>1, <1>2 DEF AdministrativeBlockPhone

\* Codes, their lifetimes and the rate limits leave the families alone, except that a code
\* may log in.
LEMMA CodeFamilies ==
    ASSUME SessionInv,
           \/ Codes(Purposes, Phones) \/ Answers \/ CodeFaults \/ CodeLifetimes \/ Registrations
           \/ RateLimits
    PROVE  FamiliesStep
  <1>1. CASE Codes(Purposes, Phones) \/ CodeFaults \/ CodeLifetimes \/ RateLimits
    <2>1. UNCHANGED families
      BY <1>1 DEF Codes, CodeFaults, CodeLifetimes, RateLimits, RequestPhoneCode, InsertChallenge,
                  SendSucceeds, SendFails, Crash, VerifyFails, ChallengeExpires, GrantExpires,
                  PurgeExpiredAuthState, CooldownEnds, WindowEnds, databaseVars, accountVars
    <2> QED
      BY <2>1, QuietFamilies
  <1>2. ASSUME NEW c \in Challenges, VerifyLogsIn(c) PROVE FamiliesStep
    <2>1. PICK u : /\ families' = [families EXCEPT ![u] = LoggedIn(families[u], "live")]
                   /\ users'[u] = "active"
      BY <1>2 DEF VerifyLogsIn, Effective
    <2> QED
      BY <2>1, LoginStep
  <1>3. ASSUME NEW c \in Challenges, VerifyGrants(c) PROVE FamiliesStep
    BY <1>3, QuietFamilies DEF VerifyGrants, databaseVars, accountVars
  <1>4. ASSUME NEW g \in Grants, CompleteRegistration(g) PROVE FamiliesStep
    <2>1. PICK u : /\ families' = [families EXCEPT ![u] = LoggedIn(families[u], "live")]
                   /\ u \in Users => users'[u] = "active"
      BY <1>4 DEF CompleteRegistration, SessionInv
    <2> QED
      BY <2>1, LoginStep
  <1>5. ASSUME NEW g \in Grants, CancelRegistration(g) PROVE FamiliesStep
    BY <1>5, QuietFamilies DEF CancelRegistration, databaseVars, accountVars
  <1> QED
    BY <1>1, <1>2, <1>3, <1>4, <1>5 DEF Answers, Registrations

\* Passwords, phone changes, erasures and logins.
LEMMA CredentialFamilies ==
    ASSUME SessionInv, Credentials \/ Erasures \/ Logins
    PROVE  FamiliesStep
  <1>1. ASSUME NEW g \in Grants, ResetPassword(g) PROVE FamiliesStep
    <2>1. PICK u : families' = [families EXCEPT ![u] = RevokedAll(families[u])]
      BY <1>1 DEF ResetPassword
    <2> QED
      BY <2>1, RevocationStep
  <1>2. ASSUME NEW g \in Grants, NEW u \in Users, CompletePhoneChange(u, g) PROVE FamiliesStep
    <2>1. /\ families' = [families EXCEPT ![u] = LoggedIn(RevokedAll(families[u]), "live")]
          /\ users'[u] = "active"
      BY <1>2 DEF CompletePhoneChange, Effective
    <2> QED
      BY <2>1, LoginStep
  <1>3. ASSUME NEW u \in Users, ChangePassword(u) PROVE FamiliesStep
    <2>1. /\ families' = [families EXCEPT ![u] = LoggedIn(RevokedAll(families[u]), "live")]
          /\ users'[u] = "active"
      BY <1>3 DEF ChangePassword, Effective
    <2> QED
      BY <2>1, LoginStep
  <1>4. ASSUME NEW u \in Users, EraseAccount(u) PROVE FamiliesStep
    BY <1>4, ErasureStep DEF EraseAccount
  <1>5. ASSUME NEW g \in Grants, EraseQualifyingBannedAccount(g) PROVE FamiliesStep
    BY <1>5, ErasureStep DEF EraseQualifyingBannedAccount
  <1>6. ASSUME NEW p \in Phones, NEW c \in Clients, NEW a \in Addresses, LoginWithPassword(p, c, a)
        PROVE  FamiliesStep
    <2>1. CASE families' = families
      BY <2>1, QuietFamilies
    <2>2. CASE \E u \in Holders(p) :
                  /\ families' = [families EXCEPT ![u] = LoggedIn(families[u], "live")]
                  /\ users'[u] = "active"
      BY <2>2, LoginStep
    <2> QED
      BY <1>6, <2>1, <2>2 DEF LoginWithPassword, Effective
  <1> QED
    BY <1>1, <1>2, <1>3, <1>4, <1>5, <1>6 DEF Credentials, Erasures, Logins

\* Logouts, refreshes, the operations of the core and the deadlines.
LEMMA SessionFamilies ==
    ASSUME SessionInv, Logouts \/ Refreshes \/ CoreSessions \/ SessionLifetimes
    PROVE  FamiliesStep
  <1>1. ASSUME NEW u, LogoutAllSessions(u) \/ RevokeAllSessions(u) PROVE FamiliesStep
    <2>1. families' = [families EXCEPT ![u] = RevokedAll(families[u])]
      BY <1>1 DEF LogoutAllSessions, RevokeAllSessions
    <2> QED
      BY <2>1, RevocationStep
  <1>2. ASSUME NEW u, CreateSession(u) PROVE FamiliesStep
    <2>1. families' = [families EXCEPT ![u] = LoggedIn(families[u], "none")] /\ users'[u] = "active"
      BY <1>2 DEF CreateSession
    <2> QED
      BY <2>1, LoginStep
  <1>3. ASSUME NEW u \in Registered, NEW i \in DOMAIN families[u],
               RevokeSessionFamily(u, i) \/ FamilyAges(u, i)
        PROVE  FamiliesStep
    <2>1. u \in Users /\ Device(families[u][i])
      BY DEF Registered, SessionInv, UserSessions, Device
    <2>2. CASE RevokeSessionFamily(u, i)
      <3>1. families' = [families EXCEPT ![u][i] = RevokedFamily(families[u][i])]
        BY <2>2 DEF RevokeSessionFamily
      <3> QED
        BY <2>1, <3>1, RevokedFamilyLater, OneFamilyStep
    <2>3. CASE FamilyAges(u, i)
      <3>1. families' = [families EXCEPT ![u][i] = [families[u][i] EXCEPT !.aged = TRUE]]
        BY <2>3 DEF FamilyAges
      <3> QED
        BY <2>1, <3>1, AgedLater, OneFamilyStep
    <2> QED
      BY <1>3, <2>2, <2>3
  <1>4. ASSUME NEW u \in Registered, NEW i \in DOMAIN families[u],
               NEW j \in DOMAIN families[u][i].sessions,
               \/ RevokeSession(u, i, j) \/ RotateSession(u, i, j) \/ RefreshSession(u, i, j)
               \/ LogoutCurrentSession(u, i, j) \/ AccessExpires(u, i, j) \/ SessionExpires(u, i, j)
        PROVE  FamiliesStep
    BY <1>4, SessionSteps
  <1> QED
    BY <1>1, <1>2, <1>3, <1>4 DEF Logouts, Refreshes, CoreSessions, SessionLifetimes

\* Sanctions and what administrators do.
LEMMA SanctionFamilies ==
    ASSUME SessionInv, StatusChanges \/ Attachments \/ QualifyingBans \/ AdministrativeBlocks
    PROVE  FamiliesStep
  <1>1. ASSUME NEW u, NEW status, SetUserStatus(u, status) PROVE FamiliesStep
    <2>1. families' = [families EXCEPT ![u] = RevokedAll(families[u])] \/ families' = families
      BY <1>1 DEF SetUserStatus
    <2> QED
      BY <2>1, RevocationStep, QuietFamilies
  <1>2. ASSUME NEW u, NEW subject, AttachIdentity(u, subject) PROVE FamiliesStep
    BY <1>2, QuietFamilies DEF AttachIdentity
  <1>3. ASSUME NEW op, NEW u, ApplyQualifyingBan(op, u) PROVE FamiliesStep
    <2>1. families' = [families EXCEPT ![u] = RevokedAll(families[u])]
      BY <1>3 DEF ApplyQualifyingBan
    <2> QED
      BY <2>1, RevocationStep
  <1>4. ASSUME NEW op, NEW p, ResetForReassignment(op, p) \/ AdministrativeUnblockPhone(op, p)
        PROVE  FamiliesStep
    BY <1>4, QuietFamilies DEF ResetForReassignment, AdministrativeUnblockPhone, accountVars
  <1>5. ASSUME NEW op, NEW p, NEW e, OverturnQualifyingBan(op, p, e) PROVE FamiliesStep
    BY <1>5, QuietFamilies DEF OverturnQualifyingBan
  <1>6. ASSUME NEW op, NEW p, AdministrativeBlockPhone(op, p) PROVE FamiliesStep
    BY <1>6, BlockStep
  <1> QED
    BY <1>1, <1>2, <1>3, <1>4, <1>5, <1>6
       DEF StatusChanges, Attachments, QualifyingBans, AdministrativeBlocks

-----------------------------------------------------------------------------
(* The other tables, and the invariant.                                    *)

\* A step that touches no table but those of the sessions.
SessionsOnly == UNCHANGED <<users, identities, passwords, bans, ledgerVars>>

\* A sanction of a phone or a user.
Sanction(op) ==
    \/ \E u \in Users : ApplyQualifyingBan(op, u)
    \/ \E p \in Phones :
         \/ AdministrativeBlockPhone(op, p) \/ AdministrativeUnblockPhone(op, p)
         \/ ResetForReassignment(op, p)
         \/ \E e \in DOMAIN ledger[p] : OverturnQualifyingBan(op, p, e)

\* The steps that touch users, identities, passwords, bans or the ledger.
LEMMA DatabaseMoves ==
    ASSUME [Next]_vars
    PROVE  \/ SessionsOnly
           \/ \E g \in Grants : CompleteRegistration(g) \/ EraseQualifyingBannedAccount(g)
           \/ \E g \in Grants, u \in Users : CompletePhoneChange(u, g)
           \/ \E u \in Users : EraseAccount(u)
           \/ \E u \in Users : \E status \in {"active", "suspended"} : SetUserStatus(u, status)
           \/ \E u \in Users : \E subject \in Subjects : AttachIdentity(u, subject)
           \/ \E op \in 1..MaxOperations : Sanction(op)
  <1> USE DEF SessionsOnly
  <1>1. CASE UNCHANGED vars
    BY <1>1 DEF vars, databaseVars, accountVars
  <1>2. CASE Codes(Purposes, Phones) \/ CodeFaults \/ CodeLifetimes \/ RateLimits
    BY <1>2 DEF Codes, CodeFaults, CodeLifetimes, RateLimits, RequestPhoneCode, InsertChallenge,
                SendSucceeds, SendFails, Crash, VerifyFails, ChallengeExpires, GrantExpires,
                PurgeExpiredAuthState, CooldownEnds, WindowEnds, databaseVars, accountVars
  <1>3. CASE Answers
    BY <1>3 DEF Answers, VerifyLogsIn, VerifyGrants, databaseVars, accountVars
  <1>4. CASE Registrations
    <2>1. ASSUME NEW g \in Grants, CancelRegistration(g) PROVE SessionsOnly
      BY <2>1 DEF CancelRegistration, databaseVars, accountVars
    <2> QED
      BY <1>4, <2>1 DEF Registrations
  <1>5. CASE Credentials
    <2>1. ASSUME NEW g \in Grants, ResetPassword(g) PROVE SessionsOnly
      BY <2>1 DEF ResetPassword
    <2>2. ASSUME NEW u \in Users, ChangePassword(u) PROVE SessionsOnly
      BY <2>2 DEF ChangePassword
    <2> QED
      BY <1>5, <2>1, <2>2 DEF Credentials
  <1>6. CASE Erasures
    BY <1>6 DEF Erasures
  <1>7. CASE Logins
    BY <1>7 DEF Logins, LoginWithPassword
  <1>8. CASE Logouts
    <2>1. ASSUME NEW u, LogoutAllSessions(u) PROVE SessionsOnly
      BY <2>1 DEF LogoutAllSessions
    <2>2. ASSUME NEW u, NEW i, NEW j, LogoutCurrentSession(u, i, j) PROVE SessionsOnly
      BY <2>2 DEF LogoutCurrentSession
    <2> HIDE DEF SessionsOnly
    <2>3. SessionsOnly
      BY <1>8, <2>1, <2>2 DEF Logouts
    <2> QED
      BY <2>3
  <1>9. CASE Refreshes
    <2>1. ASSUME NEW u, NEW i, NEW j, RefreshSession(u, i, j) PROVE SessionsOnly
      BY <2>1 DEF RefreshSession
    <2> HIDE DEF SessionsOnly
    <2>2. SessionsOnly
      BY <1>9, <2>1 DEF Refreshes
    <2> QED
      BY <2>2
  <1>10. CASE CoreSessions
    <2>1. ASSUME NEW u, CreateSession(u) \/ RevokeAllSessions(u) PROVE SessionsOnly
      BY <2>1 DEF CreateSession, RevokeAllSessions
    <2>2. ASSUME NEW u, NEW i, RevokeSessionFamily(u, i) PROVE SessionsOnly
      BY <2>2 DEF RevokeSessionFamily
    <2>3. ASSUME NEW u, NEW i, NEW j, RevokeSession(u, i, j) \/ RotateSession(u, i, j)
          PROVE  SessionsOnly
      BY <2>3 DEF RevokeSession, RotateSession
    <2> HIDE DEF SessionsOnly
    <2>4. SessionsOnly
      BY <1>10, <2>1, <2>2, <2>3 DEF CoreSessions
    <2> QED
      BY <2>4
  <1>11. CASE SessionLifetimes
    <2>1. ASSUME NEW u, NEW i, FamilyAges(u, i) PROVE SessionsOnly
      BY <2>1 DEF FamilyAges
    <2>2. ASSUME NEW u, NEW i, NEW j, AccessExpires(u, i, j) \/ SessionExpires(u, i, j)
          PROVE  SessionsOnly
      BY <2>2 DEF AccessExpires, SessionExpires
    <2> HIDE DEF SessionsOnly
    <2>3. SessionsOnly
      BY <1>11, <2>1, <2>2 DEF SessionLifetimes
    <2> QED
      BY <2>3
  <1>12. CASE StatusChanges \/ Attachments
    BY <1>12 DEF StatusChanges, Attachments
  <1>13. CASE QualifyingBans \/ AdministrativeBlocks
    BY <1>13 DEF QualifyingBans, AdministrativeBlocks, Sanction
  <1> QED
    BY <1>1, <1>2, <1>3, <1>4, <1>5, <1>6, <1>7, <1>8, <1>9, <1>10, <1>11, <1>12, <1>13 DEF Next

\* The users keep their ids.
LEMMA UsersStay ==
    ASSUME DOMAIN users = Users, [Next]_vars
    PROVE  DOMAIN users' = Users
  <1>1. ASSUME NEW op, Sanction(op) PROVE DOMAIN users' = Users
    <2>1. ASSUME NEW u, ApplyQualifyingBan(op, u) PROVE DOMAIN users' = Users
      BY <2>1 DEF ApplyQualifyingBan
    <2>2. ASSUME NEW p, \/ AdministrativeBlockPhone(op, p) \/ AdministrativeUnblockPhone(op, p)
                        \/ ResetForReassignment(op, p)
          PROVE  DOMAIN users' = Users
      BY <2>2 DEF AdministrativeBlockPhone, AdministrativeUnblockPhone, ResetForReassignment, accountVars
    <2>3. ASSUME NEW p, NEW e, OverturnQualifyingBan(op, p, e) PROVE DOMAIN users' = Users
      BY <2>3 DEF OverturnQualifyingBan
    <2> QED
      BY <1>1, <2>1, <2>2, <2>3 DEF Sanction
  <1> QED
    BY <1>1, DatabaseMoves
       DEF SessionsOnly, CompleteRegistration, EraseQualifyingBannedAccount, CompletePhoneChange,
           EraseAccount, DeleteOwnedRows, SetUserStatus, AttachIdentity

\* Every step moves the families of every user in one of the ways above.
LEMMA FamiliesMove ==
    ASSUME SessionInv, [Next]_vars
    PROVE  FamiliesStep
  <1>1. CASE UNCHANGED vars
    BY <1>1, QuietFamilies DEF vars, databaseVars, accountVars
  <1> QED
    BY <1>1, CodeFamilies, CredentialFamilies, SessionFamilies, SanctionFamilies DEF Next

\* The databases a behaviour starts from have one session per user at most.
LEMMA SessionInit == Init => SessionInv
  <1> SUFFICES ASSUME NEW start \in Starts, StartedFrom(start) PROVE SessionInv
    BY DEF Init
  <1>1. families = [u \in Users |-> IF u \in DOMAIN start THEN LoggedIn(<<>>, "live") ELSE <<>>]
    BY DEF StartedFrom
  <1>2. UserSessions(<<>>) /\ UserSessions(LoggedIn(<<>>, "live"))
    BY NoSessions, LoginLimit
  <1>3. <<>> \in Seq(Families) /\ LoggedIn(<<>>, "live") \in Seq(Families)
    BY <1>2 DEF UserSessions
  <1>4. DOMAIN users = Users
    BY DEF StartedFrom
  <1> QED
    BY <1>1, <1>2, <1>3, <1>4 DEF SessionInv

\* The sessions of every user are as the code promises, in every reachable state.
LEMMA SessionInvariant == Spec => []SessionInv
  <1>1. SessionInv /\ [Next]_vars => SessionInv'
    <2> SUFFICES ASSUME SessionInv, [Next]_vars PROVE SessionInv'
      OBVIOUS
    <2>1. FamiliesStep
      BY FamiliesMove
    <2>2. ASSUME NEW u \in Users PROVE UserSessions(families[u])'
      <3>1. UserSessions(families'[u])
        BY <2>1, MoveKeeps DEF SessionInv, FamiliesStep
      <3> QED
        BY <3>1
    <2>3. DOMAIN users' = Users
      BY UsersStay DEF SessionInv
    <2> QED
      BY <2>1, <2>2, <2>3 DEF SessionInv, FamiliesStep
  <1> QED
    BY <1>1, SessionInit, PTL DEF Spec

\* A user never has more active families than the limit: a login evicts before it adds,
\* and nothing else makes a family active again.
THEOREM LoginsStayLimited == Spec => []FamilyLimit
  <1>1. SessionInv => FamilyLimit
    BY DEF SessionInv, UserSessions, FamilyLimit
  <1> QED
    BY <1>1, SessionInvariant, PTL

\* A family is one device: one live session at most, none ever again after a replay.
THEOREM FamiliesAreDevices == Spec => []FamilyIsOneDevice
  <1>1. SessionInv => FamilyIsOneDevice
    <2> SUFFICES ASSUME SessionInv, NEW u \in Users, NEW i \in DOMAIN families[u]
                 PROVE  LET f == families[u][i]
                            live == {j \in DOMAIN f.sessions : LiveLeaf(f.sessions[j])}
                        IN  Cardinality(live) <= 1 /\ (f.replayed => live = {})
      BY DEF FamilyIsOneDevice
    <2> DEFINE f == families[u][i]
               live == {j \in DOMAIN f.sessions : LiveLeaf(f.sessions[j])}
    <2>1. f \in Families /\ OneDevice(f)
      BY DEF SessionInv, UserSessions
    <2>2. DOMAIN f.sessions = 1..Len(f.sessions) /\ Len(f.sessions) \in Nat
      BY <2>1, FamilyFields
    <2>3. IsFiniteSet(live)
      BY <2>2, PositionsFinite
    <2>4. Cardinality(live) <= 1
      BY <2>1, <2>3, AtMostOne DEF OneDevice
    <2> QED
      BY <2>1, <2>4 DEF OneDevice
  <1> QED
    BY <1>1, SessionInvariant, PTL

-----------------------------------------------------------------------------
(* Extreme elements.                                                       *)

\* The least element of a nonempty set of naturals.
LEMMA MinIn ==
    ASSUME NEW S \in SUBSET Nat, S # {}
    PROVE  Min(S) \in S
  <1>1. \E x \in S : \A y \in S : x <= y
    BY LeastExists
  <1> QED
    BY <1>1 DEF Min

\* A bounded nonempty set of naturals has a greatest element.
LEMMA MaxIn ==
    ASSUME NEW S \in SUBSET Nat, S # {}, NEW b \in Nat, \A x \in S : x <= b
    PROVE  Max(S) \in S /\ \A x \in S : x <= Max(S)
  <1> DEFINE T == {b - x : x \in S}
  <1>1. T \in SUBSET Nat /\ T # {}
    <2>1. PICK x \in S : TRUE
      OBVIOUS
    <2>2. b - x \in T /\ \A y \in S : b - y \in Nat
      OBVIOUS
    <2> QED
      BY <2>2
  <1>2. PICK m \in T : \A y \in T : m <= y
    BY <1>1, LeastExists
  <1>3. PICK x \in S : m = b - x
    BY <1>2
  <1>4. ASSUME NEW y \in S PROVE x >= y
    <2>1. b - y \in T
      OBVIOUS
    <2>2. b - x <= b - y /\ x \in Nat /\ y \in Nat
      BY <1>2, <1>3, <2>1
    <2> QED
      BY <2>2
  <1>5. \E z \in S : \A y \in S : z >= y
    BY <1>4
  <1>6. Max(S) \in S /\ \A y \in S : Max(S) >= y
    BY <1>5 DEF Max
  <1> QED
    BY <1>6

\* Of two numbers.
LEMMA MaxPair ==
    ASSUME NEW a \in Int, NEW b \in Int
    PROVE  Max({a, b}) = IF a >= b THEN a ELSE b
  <1>1. \E x \in {a, b} : \A y \in {a, b} : x >= y
    OBVIOUS
  <1>2. Max({a, b}) \in {a, b} /\ \A y \in {a, b} : Max({a, b}) >= y
    BY <1>1 DEF Max
  <1> QED
    BY <1>2

LEMMA MinPair ==
    ASSUME NEW a \in Int, NEW b \in Int
    PROVE  Min({a, b}) = IF a <= b THEN a ELSE b
  <1>1. \E x \in {a, b} : \A y \in {a, b} : x <= y
    OBVIOUS
  <1>2. Min({a, b}) \in {a, b} /\ \A y \in {a, b} : Min({a, b}) <= y
    BY <1>1 DEF Min
  <1> QED
    BY <1>2

\* The numbers of a finite table are bounded.
LEMMA TableBounded ==
    ASSUME NEW n \in Nat, NEW f \in [1..n -> Nat]
    PROVE  \E b \in Nat : \A i \in 1..n : f[i] <= b
  <1> DEFINE K == {k \in 0..n : ~\E b \in Nat : \A i \in 1..k : f[i] <= b}
  <1>1. K \in SUBSET Nat
    OBVIOUS
  <1>2. CASE K = {}
    <2>1. n \in 0..n
      OBVIOUS
    <2>2. n \notin K
      BY <1>2
    <2> QED
      BY <2>1, <2>2
  <1>3. CASE K # {}
    <2>1. PICK m \in K : \A k \in K : m <= k
      BY <1>1, <1>3, LeastExists
    <2>2. m # 0
      <3>1. \A i \in 1..0 : f[i] <= 0
        OBVIOUS
      <3> QED
        BY <3>1
    <2>3. m \in 1..n /\ m - 1 \in 0..n /\ ~(m <= m - 1)
      BY <2>2
    <2>4. PICK b \in Nat : \A i \in 1..(m - 1) : f[i] <= b
      BY <2>1, <2>3
    <2>5. f[m] \in Nat
      BY <2>3
    <2>6. \A i \in 1..m : f[i] <= IF f[m] <= b THEN b ELSE f[m]
      <3> SUFFICES ASSUME NEW i \in 1..m PROVE f[i] <= IF f[m] <= b THEN b ELSE f[m]
        OBVIOUS
      <3>1. i = m \/ i \in 1..(m - 1)
        BY <2>3
      <3>2. f[i] \in Nat
        BY <2>3
      <3> QED
        BY <2>4, <2>5, <3>1, <3>2
    <2>7. (IF f[m] <= b THEN b ELSE f[m]) \in Nat
      BY <2>5
    <2> QED
      BY <2>6, <2>7
  <1> QED
    BY <1>2, <1>3

-----------------------------------------------------------------------------
(* The ledger stays well formed.                                           *)

\* The next sequence number of a generation is a number.
LEMMA NextSequenceType ==
    ASSUME LedgerTypeOK, NEW p \in Phones, NEW g
    PROVE  NextSequence(p, g) \in Nat
  <1> DEFINE f == [i \in 1..Len(ledger[p]) |-> ledger[p][i].sequence]
             I == {k \in DOMAIN ledger[p] : ledger[p][k].generation = g}
             S == {0} \cup {ledger[p][i].sequence : i \in I}
  <1>1. /\ ledger[p] \in Seq(Events) /\ Len(ledger[p]) \in Nat
        /\ DOMAIN ledger[p] = 1..Len(ledger[p])
        /\ \A i \in DOMAIN ledger[p] : ledger[p][i] \in Events
    BY DEF LedgerTypeOK
  <1>2. \A i \in DOMAIN ledger[p] : ledger[p][i].sequence \in Nat
    BY <1>1 DEF Events
  <1>3. f \in [1..Len(ledger[p]) -> Nat]
    BY <1>1, <1>2
  <1>4. PICK b \in Nat : \A i \in 1..Len(ledger[p]) : f[i] <= b
    BY <1>1, <1>3, TableBounded
  <1>5. S \in SUBSET Nat /\ 0 \in S /\ \A x \in S : x <= b
    <2>1. \A i \in I : ledger[p][i].sequence \in Nat /\ ledger[p][i].sequence <= b
      BY <1>1, <1>2, <1>4
    <2>2. 0 <= b
      OBVIOUS
    <2> HIDE DEF I
    <2> QED
      BY <2>1, <2>2
  <1> HIDE DEF S
  <1>6. Max(S) \in Nat
    BY <1>5, MaxIn
  <1> QED
    BY <1>6 DEF NextSequence, S

\* An event of the ledger.
LEMMA EventType ==
    ASSUME NEW g \in 1..MaxGenerations, NEW n \in Nat, NEW stream \in {"sanction", "status"},
           NEW type \in EventTypes, NEW op \in 1..MaxOperations, NEW ref \in Nat
    PROVE  Event(g, n, stream, type, op, ref) \in Events
  BY DEF Event, Events

\* Events are appended to the ledger of one phone.
LEMMA LedgerGrows ==
    ASSUME LedgerTypeOK, NEW p \in Phones, NEW s \in Seq(Events),
           ledger' = [ledger EXCEPT ![p] = ledger[p] \o s]
    PROVE  ledger' \in [Phones -> Seq(Events)]
  BY DEF LedgerTypeOK

\* A recorded request.
OperationRows ==
    [phone : Phones, generation : 1..MaxGenerations, sanctions : 0..1, statuses : 0..1]

\* A request is recorded.
LEMMA RecordType ==
    ASSUME LedgerTypeOK, NEW p \in Phones, NEW g \in 1..MaxGenerations,
           NEW sanctions \in 0..1, NEW statuses \in 0..1, Record(p, g, sanctions, statuses)
    PROVE  /\ operations' \in Seq(OperationRows)
           /\ Len(operations) + 1 \in 1..MaxOperations
  <1>1. Len(operations) \in Nat /\ MaxOperations \in Nat
    BY LedgerAssumption DEF LedgerTypeOK
  <1>2. Len(operations) + 1 \in 1..MaxOperations
    BY <1>1 DEF Record
  <1> QED
    <2>1. operations \in Seq(OperationRows)
      BY DEF LedgerTypeOK, OperationRows
    <2>2. [phone |-> p, generation |-> g, sanctions |-> sanctions, statuses |-> statuses]
             \in OperationRows
      BY DEF OperationRows
    <2> QED
      BY <1>2, <2>1, <2>2 DEF Record

\* A step of the ledger: the phone, what it appends, and its new row.  A phone once
\* known stays known.
LedgerStep(p) ==
    /\ p \in Phones
    /\ \E s \in Seq(Events) : ledger' = [ledger EXCEPT ![p] = ledger[p] \o s]
    /\ \E row \in Rows \cup {NoRow} :
         /\ reputations' = [reputations EXCEPT ![p] = row]
         /\ row = NoRow => reputations[p] = NoRow
    /\ operations' \in Seq(OperationRows)

LEMMA KnownRow == NoRow \notin Rows
  BY DEF NoRow, Rows

LEMMA LedgerStepType ==
    ASSUME LedgerTypeOK, NEW p, LedgerStep(p)
    PROVE  LedgerTypeOK'
  <1>1. ledger' \in [Phones -> Seq(Events)]
    BY LedgerGrows DEF LedgerStep
  <1>2. reputations' \in [Phones -> Rows \cup {NoRow}]
    BY DEF LedgerStep, LedgerTypeOK
  <1> QED
    BY <1>1, <1>2 DEF LedgerStep, LedgerTypeOK, OperationRows

\* What is known of a phone's row and table.
LEMMA RowFacts ==
    ASSUME LedgerTypeOK, NEW p \in Phones
    PROVE  /\ reputations[p] \in Rows \cup {NoRow}
           /\ reputations[p] # NoRow => reputations[p] \in Rows
           /\ reputations[p].status \in {"normal", "blocked"} => reputations[p] \in Rows
           /\ reputations[p].generation \in 1..MaxGenerations => reputations[p] \in Rows
           /\ reputations[p] \in Rows => reputations[p].generation \in 1..MaxGenerations
           /\ ledger[p] \in Seq(Events) /\ Len(ledger[p]) \in Nat
           /\ DOMAIN ledger[p] = 1..Len(ledger[p])
           /\ \A e \in DOMAIN ledger[p] : /\ ledger[p][e] \in Events
                                         /\ ledger[p][e].generation \in 1..MaxGenerations
  <1>1. reputations[p] \in Rows \cup {NoRow} /\ ledger[p] \in Seq(Events)
    BY DEF LedgerTypeOK
  <1>2. NoRow.status = "none" /\ NoRow.generation = 0 /\ MaxGenerations \in Nat
    BY LedgerAssumption DEF NoRow
  <1>3. \A e \in DOMAIN ledger[p] : ledger[p][e] \in Events
    BY <1>1
  <1>4. reputations[p] \in Rows => reputations[p].generation \in 1..MaxGenerations
    BY DEF Rows
  <1>5. \A e \in DOMAIN ledger[p] : ledger[p][e].generation \in 1..MaxGenerations
    BY <1>3 DEF Events
  <1> QED
    BY <1>1, <1>2, <1>3, <1>4, <1>5

\* A generation starts.
LEMMA StartStep ==
    ASSUME LedgerTypeOK, NEW p \in Phones, NEW g \in 1..MaxGenerations,
           StartGeneration(p, Len(operations) + 1, g)
    PROVE  LedgerStep(p)
  <1> DEFINE op == Len(operations) + 1
             a == Event(g, 1, "status", "generation_started", op, 0)
             b == Event(g, 2, "sanction", "generation_started", op, 0)
  <1>1. Record(p, g, 1, 1)
    BY DEF StartGeneration
  <1>2. /\ op \in 1..MaxOperations
        /\ operations' \in Seq(OperationRows)
    BY <1>1, RecordType
  <1> HIDE DEF op
  <1>3. a \in Events /\ b \in Events
    BY <1>2, EventType DEF EventTypes
  <1>4. ledger' = [ledger EXCEPT ![p] = ledger[p] \o <<a, b>>]
    BY DEF StartGeneration, op
  <1> HIDE DEF a, b
  <1>5. <<a, b>> \in Seq(Events)
    BY <1>3
  <1>6. NewRow(g) \in Rows
    BY LedgerAssumption DEF NewRow, Rows
  <1>7. reputations' = [reputations EXCEPT ![p] = NewRow(g)]
    BY DEF StartGeneration
  <1>8. NewRow(g) # NoRow
    BY <1>6, KnownRow
  <1> QED
    BY <1>2, <1>4, <1>5, <1>6, <1>7, <1>8 DEF LedgerStep

\* A row with another count, status or time.
LEMMA RowType ==
    ASSUME NEW row \in Rows, NEW c \in Int, NEW status \in {"normal", "blocked"},
           NEW b \in 0..MaxOperations, NEW l \in 0..MaxOperations
    PROVE  /\ [row EXCEPT !.count = c, !.status = status, !.blockedAt = b] \in Rows
           /\ [row EXCEPT !.count = c, !.lastBanAt = l, !.status = status, !.blockedAt = b] \in Rows
           /\ row.count \in Int /\ row.status \in {"normal", "blocked"}
           /\ row.blockedAt \in 0..MaxOperations
  BY DEF Rows

LEMMA StatusRowType ==
    ASSUME NEW row \in Rows, NEW status \in {"normal", "blocked"}, NEW b \in 0..MaxOperations
    PROVE  [row EXCEPT !.status = status, !.blockedAt = b] \in Rows
  BY DEF Rows

\* Times of operations.
LEMMA TimeType ==
    ASSUME NEW op \in 1..MaxOperations
    PROVE  op \in 0..MaxOperations /\ 0 \in 0..MaxOperations
  BY LedgerAssumption

\* An administrator blocks or unblocks a phone.
LEMMA StatusStep ==
    ASSUME LedgerTypeOK, NEW p \in Phones, NEW op, NewOperation(op),
           BlockPhone(op, p) \/ UnblockPhone(op, p)
    PROVE  LedgerStep(p)
  <1> DEFINE row == reputations[p]
             g == row.generation
             n == NextSequence(p, g)
  <1>1. row \in Rows /\ g \in 1..MaxGenerations
    BY RowFacts DEF BlockPhone, UnblockPhone
  <1>2. PICK k \in 0..1 : Record(p, g, 0, k)
    BY DEF BlockPhone, UnblockPhone
  <1>3. /\ op \in 1..MaxOperations
        /\ operations' \in Seq(OperationRows)
    BY <1>1, <1>2, RecordType DEF NewOperation
  <1>4. n \in Nat
    BY NextSequenceType
  <1>5. CASE UNCHANGED <<reputations, ledger>>
    <2>1. <<>> \in Seq(Events) /\ ledger' = [ledger EXCEPT ![p] = ledger[p] \o <<>>]
      BY <1>5, RowFacts DEF LedgerTypeOK
    <2>2. reputations' = [reputations EXCEPT ![p] = row]
      BY <1>5 DEF LedgerTypeOK
    <2> QED
      BY <1>1, <1>3, <2>1, <2>2, KnownRow DEF LedgerStep
  <1>6. ASSUME NEW type \in {"phone_blocked", "phone_unblocked"}, AppendStatus(p, op, type, 0)
        PROVE  \E s \in Seq(Events) : ledger' = [ledger EXCEPT ![p] = ledger[p] \o s]
    <2> DEFINE e == Event(g, n, "status", type, op, 0)
    <2>1. e \in Events
      BY <1>1, <1>3, <1>4, EventType DEF EventTypes
    <2>2. ledger' = [ledger EXCEPT ![p] = Append(ledger[p], e)]
      BY <1>6 DEF AppendStatus
    <2> HIDE DEF e
    <2>3. Append(ledger[p], e) = ledger[p] \o <<e>> /\ <<e>> \in Seq(Events)
      BY <2>1, RowFacts
    <2> QED
      BY <2>2, <2>3
  <1>7. CASE /\ AppendStatus(p, op, "phone_blocked", 0)
             /\ reputations' = [reputations EXCEPT ![p].status = "blocked", ![p].blockedAt = op]
    <2>1. [row EXCEPT !.status = "blocked", !.blockedAt = op] \in Rows
      BY <1>1, <1>3, StatusRowType, TimeType
    <2>2. reputations' = [reputations EXCEPT ![p] = [row EXCEPT !.status = "blocked", !.blockedAt = op]]
      BY <1>7 DEF LedgerTypeOK
    <2> QED
      BY <1>3, <1>6, <1>7, <2>1, <2>2, KnownRow DEF LedgerStep
  <1>8. CASE /\ AppendStatus(p, op, "phone_unblocked", 0)
             /\ reputations' = [reputations EXCEPT ![p].status = "normal", ![p].blockedAt = 0]
    <2>1. [row EXCEPT !.status = "normal", !.blockedAt = 0] \in Rows
      BY <1>1, <1>3, StatusRowType, TimeType
    <2>2. reputations' = [reputations EXCEPT ![p] = [row EXCEPT !.status = "normal", !.blockedAt = 0]]
      BY <1>8 DEF LedgerTypeOK
    <2> QED
      BY <1>3, <1>6, <1>8, <2>1, <2>2, KnownRow DEF LedgerStep
  <1> QED
    BY <1>5, <1>7, <1>8 DEF BlockPhone, UnblockPhone

\* A qualifying ban, which may block the phone.
LEMMA BanStep ==
    ASSUME LedgerTypeOK, NEW p \in Phones, reputations[p] # NoRow, NEW op, NewOperation(op),
           BanPhone(op, p)
    PROVE  LedgerStep(p)
  <1> DEFINE row == reputations[p]
             g == row.generation
             n == NextSequence(p, g)
             blocks == ShouldBlock(p)
             ban == Event(g, n, "sanction", "qualifying_ban_applied", op, 0)
             block == Event(g, n + 1, "status", "phone_blocked", op, Len(ledger[p]) + 1)
             new == [row EXCEPT !.count = row.count + 1, !.lastBanAt = op,
                                !.status = IF blocks THEN "blocked" ELSE row.status,
                                !.blockedAt = IF blocks THEN op ELSE row.blockedAt]
  <1>1. row \in Rows /\ g \in 1..MaxGenerations
    BY RowFacts
  <1>2. Record(p, g, 1, IF blocks THEN 1 ELSE 0)
    BY DEF BanPhone
  <1>3. /\ op \in 1..MaxOperations
        /\ operations' \in Seq(OperationRows)
    BY <1>1, <1>2, RecordType DEF NewOperation
  <1>4. n \in Nat /\ n + 1 \in Nat /\ Len(ledger[p]) + 1 \in Nat
    BY NextSequenceType, RowFacts
  <1>5. ban \in Events /\ block \in Events
    BY <1>1, <1>3, <1>4, EventType DEF EventTypes
  <1>6. ledger' = [ledger EXCEPT ![p] = ledger[p] \o IF blocks THEN <<ban, block>> ELSE <<ban>>]
    BY DEF BanPhone
  <1>7. reputations' = [reputations EXCEPT ![p] = new]
    BY DEF BanPhone
  <1>8. new \in Rows
    <2>1. op \in 0..MaxOperations
      BY <1>3, TimeType
    <2>2. row.count + 1 \in Int /\ row.status \in {"normal", "blocked"}
          /\ row.blockedAt \in 0..MaxOperations
      BY <1>1 DEF Rows
    <2>3. (IF blocks THEN "blocked" ELSE row.status) \in {"normal", "blocked"}
          /\ (IF blocks THEN op ELSE row.blockedAt) \in 0..MaxOperations
      BY <2>1, <2>2
    <2> QED
      BY <1>1, <2>1, <2>2, <2>3, RowType
  <1>10. new # NoRow
    BY <1>8, KnownRow
  <1> HIDE DEF ban, block, new, blocks
  <1>9. (IF blocks THEN <<ban, block>> ELSE <<ban>>) \in Seq(Events)
    BY <1>5
  <1> QED
    BY <1>3, <1>6, <1>7, <1>8, <1>9, <1>10 DEF LedgerStep

\* An overturn, which may lift the block.
LEMMA OverturnStep ==
    ASSUME LedgerTypeOK, NEW p \in Phones, NEW e \in DOMAIN ledger[p], NEW op, NewOperation(op),
           OverturnBan(op, p, e)
    PROVE  LedgerStep(p)
  <1> DEFINE row == reputations[p]
             g == ledger[p][e].generation
             n == NextSequence(p, g)
             unblocks == ShouldUnblock(p, e)
             overturn == Event(g, n, "sanction", "qualifying_ban_overturned", op, e)
             unblock == Event(g, n + 1, "status", "phone_unblocked", op, e)
             new == [row EXCEPT !.count = row.count - 1,
                                !.status = IF unblocks THEN "normal" ELSE row.status,
                                !.blockedAt = IF unblocks THEN 0 ELSE row.blockedAt]
  <1>1. g \in 1..MaxGenerations /\ e \in Nat
    BY RowFacts
  <1>2. Record(p, g, 1, IF unblocks THEN 1 ELSE 0)
    BY DEF OverturnBan
  <1>3. /\ op \in 1..MaxOperations
        /\ operations' \in Seq(OperationRows)
    BY <1>1, <1>2, RecordType DEF NewOperation
  <1>4. n \in Nat /\ n + 1 \in Nat
    BY NextSequenceType
  <1>5. overturn \in Events /\ unblock \in Events
    BY <1>1, <1>3, <1>4, EventType DEF EventTypes
  <1>6. ledger' = [ledger EXCEPT ![p] = ledger[p] \o
                      IF unblocks THEN <<overturn, unblock>> ELSE <<overturn>>]
    BY DEF OverturnBan
  <1>7. \E r \in Rows \cup {NoRow} : /\ reputations' = [reputations EXCEPT ![p] = r]
                                     /\ r = NoRow => reputations[p] = NoRow
    <2>1. CASE Counted(p, e)
      <3>1. row \in Rows
        BY <1>1, <2>1, RowFacts DEF Counted
      <3>2. new \in Rows
        <4>1. row.count - 1 \in Int /\ row.status \in {"normal", "blocked"}
              /\ row.blockedAt \in 0..MaxOperations
          BY <3>1 DEF Rows
        <4>2. 0 \in 0..MaxOperations
          BY <1>3, TimeType
        <4>3. (IF unblocks THEN "normal" ELSE row.status) \in {"normal", "blocked"}
              /\ (IF unblocks THEN 0 ELSE row.blockedAt) \in 0..MaxOperations
          BY <4>1, <4>2
        <4> QED
          BY <3>1, <4>1, <4>2, <4>3, RowType
      <3>3. reputations' = [reputations EXCEPT ![p] = new]
        BY <2>1 DEF OverturnBan, LedgerTypeOK
      <3>4. new # NoRow
        BY <3>2, KnownRow
      <3> HIDE DEF new
      <3> QED
        BY <3>2, <3>3, <3>4
    <2>2. CASE ~Counted(p, e)
      <3>1. reputations' = [reputations EXCEPT ![p] = row] /\ row \in Rows \cup {NoRow}
        BY <2>2, RowFacts DEF OverturnBan, LedgerTypeOK
      <3> QED
        BY <3>1
    <2> QED
      BY <2>1, <2>2
  <1> HIDE DEF overturn, unblock, unblocks
  <1>8. (IF unblocks THEN <<overturn, unblock>> ELSE <<overturn>>) \in Seq(Events)
    BY <1>5
  <1> QED
    BY <1>3, <1>6, <1>7, <1>8, KnownRow DEF LedgerStep

-----------------------------------------------------------------------------
(* The database.                                                           *)

\* The tables of the accounts but the sessions.
RowsOK ==
    /\ users \in [Users -> {"absent", "active", "suspended", "erased"}]
    /\ identities \subseteq Identities
    /\ passwords \subseteq Users
    /\ bans \subseteq Bans

\* The current phone of an account with a phone.
LEMMA ActivePhoneIn ==
    ASSUME NEW u, ActivePhones(u) # {}
    PROVE  ActivePhone(u) \in ActivePhones(u) /\ ActivePhone(u) \in Phones
  <1>1. ActivePhones(u) \subseteq Phones
    BY DEF ActivePhones
  <1>2. ActivePhone(u) \in ActivePhones(u)
    BY DEF ActivePhone
  <1> QED
    BY <1>1, <1>2

\* A phone's record is opened, or was there.
LEMMA EnsureType ==
    ASSUME LedgerTypeOK, NEW p \in Phones, EnsurePhone(p)
    PROVE  LedgerTypeOK'
  <1>1. CASE UNCHANGED ledgerVars
    BY <1>1 DEF ledgerVars, LedgerTypeOK
  <1>2. CASE StartGeneration(p, Len(operations) + 1, 1)
    <2>1. 1 \in 1..MaxGenerations
      BY LedgerAssumption
    <2> QED
      BY <1>2, <2>1, StartStep, LedgerStepType
  <1> QED
    BY <1>1, <1>2 DEF EnsurePhone

\* Sanctions keep both halves well formed.
LEMMA SanctionTypes ==
    ASSUME AccountTypeOK, NEW op \in 1..MaxOperations, Sanction(op)
    PROVE  LedgerTypeOK' /\ RowsOK'
  <1> USE DEF RowsOK
  <1>1. ASSUME NEW u \in Users, ApplyQualifyingBan(op, u) PROVE LedgerTypeOK' /\ RowsOK'
    <2> DEFINE p == ActivePhone(u)
               b == [user |-> u, phone |-> p, event |-> Len(ledger[p]) + 1, overturned |-> FALSE]
    <2>1. p \in Phones /\ reputations[p] # NoRow /\ NewOperation(op) /\ BanPhone(op, p)
          /\ bans' = bans \cup {b} /\ users' = [users EXCEPT ![u] = "suspended"]
          /\ UNCHANGED <<identities, passwords>>
      BY <1>1, ActivePhoneIn DEF ApplyQualifyingBan
    <2> HIDE DEF p
    <2>2. LedgerTypeOK'
      BY <2>1, BanStep, LedgerStepType DEF AccountTypeOK
    <2>3. b \in Bans
      BY <2>1, RowFacts DEF Bans, AccountTypeOK
    <2>4. users' \in [Users -> {"absent", "active", "suspended", "erased"}]
      BY <2>1 DEF AccountTypeOK
    <2> QED
      BY <2>1, <2>2, <2>3, <2>4 DEF AccountTypeOK
  <1>2. ASSUME NEW p \in Phones, AdministrativeBlockPhone(op, p) PROVE LedgerTypeOK' /\ RowsOK'
    <2>1. LedgerTypeOK'
      BY <1>2, StatusStep, LedgerStepType DEF AccountTypeOK, AdministrativeBlockPhone
    <2> QED
      BY <1>2, <2>1 DEF AccountTypeOK, AdministrativeBlockPhone
  <1>3. ASSUME NEW p \in Phones, AdministrativeUnblockPhone(op, p) PROVE LedgerTypeOK' /\ RowsOK'
    <2>1. LedgerTypeOK'
      BY <1>3, StatusStep, LedgerStepType DEF AccountTypeOK, AdministrativeUnblockPhone
    <2> QED
      BY <1>3, <2>1 DEF AccountTypeOK, AdministrativeUnblockPhone, accountVars
  <1>4. ASSUME NEW p \in Phones, ResetForReassignment(op, p) PROVE LedgerTypeOK' /\ RowsOK'
    <2> DEFINE g == reputations[p].generation + 1
    <2>1. reputations[p] \in Rows /\ reputations[p].generation < MaxGenerations
          /\ op = Len(operations) + 1 /\ StartGeneration(p, op, g)
      BY <1>4, RowFacts DEF ResetForReassignment, ReassignPhone, NewOperation, AccountTypeOK
    <2>2. g \in 1..MaxGenerations
      BY <2>1, LedgerAssumption DEF Rows
    <2>3. LedgerTypeOK'
      BY <2>1, <2>2, StartStep, LedgerStepType DEF AccountTypeOK
    <2> QED
      BY <1>4, <2>3 DEF AccountTypeOK, ResetForReassignment, accountVars
  <1>5. ASSUME NEW p \in Phones, NEW e \in DOMAIN ledger[p], OverturnQualifyingBan(op, p, e)
        PROVE  LedgerTypeOK' /\ RowsOK'
    <2>1. LedgerTypeOK'
      BY <1>5, OverturnStep, LedgerStepType DEF AccountTypeOK, OverturnQualifyingBan
    <2>2. \A b \in Bans : [b EXCEPT !.overturned = TRUE] \in Bans
      BY DEF Bans
    <2>3. bans' \subseteq Bans
      BY <1>5, <2>2 DEF OverturnQualifyingBan, AccountTypeOK
    <2> QED
      BY <1>5, <2>1, <2>3 DEF AccountTypeOK, OverturnQualifyingBan
  <1> QED
    BY <1>1, <1>2, <1>3, <1>4, <1>5 DEF Sanction

\* A phone identity of a user, active or detached.
LEMMA IdentityType ==
    ASSUME NEW u \in Users, NEW x \in Phones \cup Subjects, NEW status \in {"active", "detached"}
    PROVE  [user |-> u, subject |-> x, status |-> status] \in Identities
  BY DEF Identities

\* A grant that exists is well formed, and so is a challenge.
LEMMA CodeRows ==
    ASSUME TypeOK
    PROVE  /\ \A g \in Grants : grants[g] # NoGrant => grants[g] \in GrantRows
           /\ \A c \in Challenges : challenges[c] # NoChallenge => challenges[c] \in ChallengeRows
           /\ DOMAIN grants = Grants /\ DOMAIN challenges = Challenges
  BY DEF TypeOK

\* Every step keeps the database well formed.
LEMMA DatabaseTypes ==
    ASSUME TypeOK, SessionInv, [Next]_vars
    PROVE  AccountTypeOK'
  <1> USE DEF RowsOK
  <1>1. AccountTypeOK
    BY DEF TypeOK
  <1>2. families' \in [Users -> Seq(Families)]
    BY FamiliesMove DEF FamiliesStep
  <1>3. CASE SessionsOnly
    BY <1>1, <1>2, <1>3 DEF SessionsOnly, AccountTypeOK, ledgerVars, LedgerTypeOK
  <1>4. ASSUME NEW g \in Grants, CompleteRegistration(g) PROVE LedgerTypeOK' /\ RowsOK'
    <2> DEFINE absent == {u \in Users : users[u] = "absent"}
               u == Min(absent)
               p == grants[g].phone
    <2>1. Min(absent) \in absent
      <3>1. absent \in SUBSET Nat /\ absent # {}
        BY <1>4, AccountAssumption DEF CompleteRegistration
      <3> QED
        BY <3>1, MinIn
    <2>2. u \in Users
      BY <2>1
    <2>3. p \in Phones
      BY <1>4, CodeRows DEF CompleteRegistration, Usable, GrantRows
    <2>4. LedgerTypeOK'
      BY <1>1, <1>4, <2>3, EnsureType DEF CompleteRegistration, AccountTypeOK
    <2>5. /\ users' = [users EXCEPT ![u] = "active"]
          /\ identities' = identities \cup {[user |-> u, subject |-> p, status |-> "active"]}
          /\ passwords' = passwords \cup {u} /\ bans' = bans
      BY <1>4 DEF CompleteRegistration
    <2> HIDE DEF u, p
    <2>6. [user |-> u, subject |-> p, status |-> "active"] \in Identities
      BY <2>2, <2>3, IdentityType
    <2> QED
      BY <1>1, <2>2, <2>4, <2>5, <2>6 DEF AccountTypeOK
  <1>5. ASSUME NEW u, DeleteOwnedRows(u), UNCHANGED ledgerVars PROVE LedgerTypeOK' /\ RowsOK'
    BY <1>1, <1>5 DEF DeleteOwnedRows, AccountTypeOK, ledgerVars, LedgerTypeOK
  <1>6. ASSUME NEW g \in Grants, NEW u \in Users, CompletePhoneChange(u, g)
        PROVE  LedgerTypeOK' /\ RowsOK'
    <2> DEFINE old == ActivePhone(u)
               p == grants[g].phone
    <2>1. old \in Phones /\ p \in Phones
      <3>1. ActivePhones(u) # {}
        BY <1>6 DEF CompletePhoneChange, Effective, PhoneNormal
      <3> QED
        BY <1>6, <3>1, ActivePhoneIn, CodeRows DEF CompletePhoneChange, Usable, GrantRows
    <2>2. LedgerTypeOK'
      BY <1>1, <1>6, <2>1, EnsureType DEF CompletePhoneChange, AccountTypeOK
    <2>3. /\ identities' = (identities \ {[user |-> u, subject |-> old, status |-> "active"]})
               \cup {[user |-> u, subject |-> old, status |-> "detached"],
                     [user |-> u, subject |-> p, status |-> "active"]}
          /\ UNCHANGED <<users, passwords, bans>>
      BY <1>6 DEF CompletePhoneChange
    <2> HIDE DEF old, p
    <2>4. /\ [user |-> u, subject |-> old, status |-> "detached"] \in Identities
          /\ [user |-> u, subject |-> p, status |-> "active"] \in Identities
      BY <2>1, IdentityType
    <2> QED
      BY <1>1, <2>2, <2>3, <2>4 DEF AccountTypeOK
  <1>7. ASSUME NEW u \in Users, NEW status \in {"active", "suspended"}, SetUserStatus(u, status)
        PROVE  LedgerTypeOK' /\ RowsOK'
    BY <1>1, <1>7 DEF SetUserStatus, AccountTypeOK, ledgerVars, LedgerTypeOK
  <1>8. ASSUME NEW u \in Users, NEW subject \in Subjects, AttachIdentity(u, subject)
        PROVE  LedgerTypeOK' /\ RowsOK'
    <2>1. [user |-> u, subject |-> subject, status |-> "active"] \in Identities
      BY IdentityType
    <2> QED
      BY <1>1, <1>8, <2>1 DEF AttachIdentity, AccountTypeOK, ledgerVars, LedgerTypeOK
  <1>9. ASSUME NEW op \in 1..MaxOperations, Sanction(op) PROVE LedgerTypeOK' /\ RowsOK'
    BY <1>1, <1>9, SanctionTypes
  <1>10. SessionsOnly \/ (LedgerTypeOK' /\ RowsOK')
    BY <1>4, <1>5, <1>6, <1>7, <1>8, <1>9, DatabaseMoves
       DEF EraseAccount, EraseQualifyingBannedAccount
  <1> QED
    BY <1>2, <1>3, <1>10 DEF AccountTypeOK

-----------------------------------------------------------------------------
(* Codes and grants.                                                       *)

\* A grant is spent.
Spends(g) ==
    /\ \E purpose \in Purposes : Usable(g, purpose)
    /\ grants' = Consumed(g)
    /\ UNCHANGED <<challenges, call>>

\* A request begins, or is dropped.
Begins ==
    /\ \/ call' = Idle
       \/ \E p \in Phones, purpose \in Purposes, u \in Bearers, c \in Clients, a \in Addresses :
            call' = [step |-> "checked", phone |-> p, purpose |-> purpose, user |-> u,
                     client |-> c, address |-> a]
    /\ UNCHANGED <<challenges, grants>>

Erases ==
    \/ \E u \in Users : EraseAccount(u)
    \/ \E g \in Grants : EraseQualifyingBannedAccount(g)

\* What a step does to challenges, grants and the request in progress.
LEMMA CodeMoves ==
    ASSUME [Next]_vars
    PROVE  \/ UNCHANGED <<challenges, grants, call>>
           \/ Begins \/ InsertChallenge \/ SendSucceeds \/ SendFails
           \/ \E c \in Challenges :
                VerifyFails(c) \/ VerifyLogsIn(c) \/ VerifyGrants(c) \/ ChallengeExpires(c)
           \/ \E g \in Grants : CancelRegistration(g) \/ GrantExpires(g) \/ Spends(g)
           \/ PurgeExpiredAuthState \/ Erases
  <1>1. CASE UNCHANGED vars
    BY <1>1 DEF vars, authVars
  <1>2. CASE Codes(Purposes, Phones)
    <2>1. ASSUME NEW p \in Phones, NEW purpose \in Purposes, NEW u \in Bearers, NEW c \in Clients,
                 NEW a \in Addresses, RequestPhoneCode(p, purpose, u, c, a)
          PROVE  Begins
      BY <2>1 DEF RequestPhoneCode, Begins
    <2> QED
      BY <1>2, <2>1 DEF Codes
  <1>3. CASE Answers
    BY <1>3 DEF Answers
  <1>4. CASE CodeFaults
    BY <1>4 DEF CodeFaults, Crash, Begins
  <1>5. CASE CodeLifetimes
    BY <1>5 DEF CodeLifetimes
  <1>6. CASE Registrations
    <2>1. ASSUME NEW g \in Grants, CompleteRegistration(g) PROVE Spends(g)
      BY <2>1 DEF CompleteRegistration, Spends, Purposes
    <2> QED
      BY <1>6, <2>1 DEF Registrations
  <1>7. CASE Credentials
    <2>1. ASSUME NEW g \in Grants, ResetPassword(g) PROVE Spends(g)
      BY <2>1 DEF ResetPassword, Spends, Purposes
    <2>2. ASSUME NEW g \in Grants, NEW u \in Users, CompletePhoneChange(u, g) PROVE Spends(g)
      BY <2>2 DEF CompletePhoneChange, Spends, Purposes
    <2>3. ASSUME NEW u \in Users, ChangePassword(u) PROVE UNCHANGED <<challenges, grants, call>>
      BY <2>3 DEF ChangePassword, authVars
    <2> QED
      BY <1>7, <2>1, <2>2, <2>3 DEF Credentials
  <1>8. CASE Erasures
    BY <1>8 DEF Erasures, Erases
  <1>9. CASE Logins
    BY <1>9 DEF Logins, LoginWithPassword
  <1>10. CASE RateLimits
    BY <1>10 DEF RateLimits, CooldownEnds, WindowEnds
  <1>11. CASE Logouts \/ Refreshes
    BY <1>11 DEF Logouts, Refreshes, LogoutAllSessions, LogoutCurrentSession, RefreshSession, authVars
  <1>12. CASE \/ CoreSessions \/ SessionLifetimes \/ StatusChanges \/ Attachments \/ QualifyingBans
              \/ AdministrativeBlocks
    BY <1>12 DEF CoreSessions, SessionLifetimes, StatusChanges, Attachments, QualifyingBans,
                 AdministrativeBlocks, authVars
  <1> QED
    BY <1>1, <1>2, <1>3, <1>4, <1>5, <1>6, <1>7, <1>8, <1>9, <1>10, <1>11, <1>12 DEF Next

\* A step that is no erasure leaves the registered users registered.
LEMMA RegisteredStay ==
    ASSUME AccountTypeOK, [Next]_vars, ~Erases
    PROVE  Registered \subseteq Registered'
  <1> SUFFICES ASSUME NEW v \in Registered PROVE v \in Registered'
    OBVIOUS
  <1>1. v \in Users /\ users[v] \in {"active", "suspended"} /\ DOMAIN users = Users
    BY DEF Registered, AccountTypeOK
  <1>2. users'[v] = users[v] \/ users'[v] \in {"active", "suspended"}
    <2>1. CASE SessionsOnly
      BY <2>1 DEF SessionsOnly
    <2>2. ASSUME NEW g \in Grants, CompleteRegistration(g)
          PROVE  users'[v] = users[v] \/ users'[v] = "active"
      BY <1>1, <2>2 DEF CompleteRegistration
    <2>3. ASSUME NEW g \in Grants, NEW u \in Users, CompletePhoneChange(u, g)
          PROVE  users'[v] = users[v]
      BY <2>3 DEF CompletePhoneChange
    <2>4. ASSUME NEW u \in Users, NEW status \in {"active", "suspended"}, SetUserStatus(u, status)
          PROVE  users'[v] = users[v] \/ users'[v] = status
      BY <1>1, <2>4 DEF SetUserStatus
    <2>5. ASSUME NEW u \in Users, NEW subject \in Subjects, AttachIdentity(u, subject)
          PROVE  users'[v] = users[v]
      BY <2>5 DEF AttachIdentity
    <2>6. ASSUME NEW op \in 1..MaxOperations, Sanction(op)
          PROVE  users'[v] = users[v] \/ users'[v] = "suspended"
      <3>1. ASSUME NEW u \in Users, ApplyQualifyingBan(op, u)
            PROVE  users'[v] = users[v] \/ users'[v] = "suspended"
        BY <1>1, <3>1 DEF ApplyQualifyingBan
      <3>2. ASSUME NEW p \in Phones,
                   \/ AdministrativeBlockPhone(op, p) \/ AdministrativeUnblockPhone(op, p)
                   \/ ResetForReassignment(op, p)
                   \/ \E e \in DOMAIN ledger[p] : OverturnQualifyingBan(op, p, e)
            PROVE  users'[v] = users[v]
        BY <3>2 DEF AdministrativeBlockPhone, AdministrativeUnblockPhone, ResetForReassignment,
                    OverturnQualifyingBan, accountVars
      <3> QED
        BY <2>6, <3>1, <3>2 DEF Sanction
    <2> QED
      BY <2>1, <2>2, <2>3, <2>4, <2>5, <2>6, DatabaseMoves DEF Erases
  <1> QED
    BY <1>1, <1>2 DEF Registered

\* A user who is erased, and nobody else, is not registered any more.
LEMMA ErasedOnly ==
    ASSUME AccountTypeOK, NEW u, DeleteOwnedRows(u)
    PROVE  Registered \ {u} \subseteq Registered'
  BY DEF AccountTypeOK, DeleteOwnedRows, Registered

-----------------------------------------------------------------------------
(* The tables of codes and grants stay well formed.                        *)

CodesTyped ==
    /\ challenges \in [Challenges -> ChallengeRows \cup {NoChallenge}]
    /\ grants \in [Grants -> GrantRows \cup {NoGrant}]
    /\ call \in Calls

\* A request that was checked, and one that is being sent.
LEMMA CallFields ==
    ASSUME call \in Calls
    PROVE  /\ call.step = "checked" =>
                /\ call.phone \in Phones /\ call.purpose \in Purposes /\ call.user \in Bearers
                /\ call.client \in Clients /\ call.address \in Addresses
           /\ call.step = "sending" => call.challenge \in Challenges
  BY DEF Calls, Idle

\* The ids a new challenge or grant may take.
LEMMA FreeIds ==
    ASSUME CodesTyped
    PROVE  /\ Free(challenges, NoChallenge) = {c \in Challenges : challenges[c] = NoChallenge}
           /\ Free(grants, NoGrant) = {g \in Grants : grants[g] = NoGrant}
           /\ Free(challenges, NoChallenge) # {} =>
                Min(Free(challenges, NoChallenge)) \in Free(challenges, NoChallenge)
           /\ Free(grants, NoGrant) # {} => Min(Free(grants, NoGrant)) \in Free(grants, NoGrant)
  <1>1. /\ Free(challenges, NoChallenge) = {c \in Challenges : challenges[c] = NoChallenge}
        /\ Free(grants, NoGrant) = {g \in Grants : grants[g] = NoGrant}
    BY DEF CodesTyped, Free
  <1>2. Free(challenges, NoChallenge) \in SUBSET Nat /\ Free(grants, NoGrant) \in SUBSET Nat
    BY <1>1, AuthenticationAssumption
  <1> QED
    BY <1>1, <1>2, MinIn

\* A row of the challenges.
LEMMA ChallengeFields ==
    ASSUME NEW r \in ChallengeRows
    PROVE  /\ r.phone \in Phones /\ r.purpose \in Purposes /\ r.user \in Bearers
           /\ r.status \in {"pending", "sent", "verified", "failed"}
           /\ r.attempts \in 0..MaxAttempts /\ r.expired \in BOOLEAN /\ r.known \in BOOLEAN
           /\ r.answered \in Nat /\ r # NoChallenge
           /\ [r EXCEPT !.status = "failed"] \in ChallengeRows
           /\ [r EXCEPT !.status = "sent", !.known = TRUE] \in ChallengeRows
           /\ [r EXCEPT !.expired = TRUE] \in ChallengeRows
           /\ [r EXCEPT !.user = NoUser] \in ChallengeRows
           /\ [r EXCEPT !.status = "verified", !.answered = r.answered + 1] \in ChallengeRows
  <1>1. "phone" \in DOMAIN r /\ DOMAIN NoChallenge = {"status"}
    BY DEF ChallengeRows, NoChallenge
  <1>2. r # NoChallenge
    BY <1>1
  <1>3. NoUser \in Bearers
    BY DEF Bearers
  <1>4. /\ r.phone \in Phones /\ r.purpose \in Purposes /\ r.user \in Bearers
        /\ r.status \in {"pending", "sent", "verified", "failed"}
        /\ r.attempts \in 0..MaxAttempts /\ r.answered \in Nat
    BY DEF ChallengeRows
  <1>5. r.expired \in BOOLEAN /\ r.known \in BOOLEAN
    BY DEF ChallengeRows
  <1>6. [r EXCEPT !.status = "failed"] \in ChallengeRows /\ [r EXCEPT !.expired = TRUE] \in ChallengeRows
    BY DEF ChallengeRows
  <1>7. [r EXCEPT !.status = "sent", !.known = TRUE] \in ChallengeRows
    BY DEF ChallengeRows
  <1>8. [r EXCEPT !.user = NoUser] \in ChallengeRows
    BY <1>3 DEF ChallengeRows
  <1>9. [r EXCEPT !.status = "verified", !.answered = r.answered + 1] \in ChallengeRows
    <2>1. \A n \in Nat : [r EXCEPT !.status = "verified", !.answered = n] \in ChallengeRows
      BY DEF ChallengeRows
    <2>2. r.answered + 1 \in Nat
      BY <1>4
    <2> QED
      BY <2>1, <2>2
  <1> QED
    BY <1>2, <1>4, <1>5, <1>6, <1>7, <1>8, <1>9

\* What a wrong answer leaves of it.
LEMMA FailedFields ==
    ASSUME NEW r \in ChallengeRows
    PROVE  /\ FailedAttempt(r) \in ChallengeRows
           /\ FailedAttempt(r).phone = r.phone /\ FailedAttempt(r).purpose = r.purpose
           /\ FailedAttempt(r).user = r.user /\ FailedAttempt(r).answered = r.answered
           /\ FailedAttempt(r).known = r.known
           /\ FailedAttempt(r).attempts = IF r.attempts = 0 THEN 0 ELSE r.attempts - 1
           /\ FailedAttempt(r).status = IF FailedAttempt(r).attempts = 0 THEN "failed" ELSE "sent"
  <1> DEFINE left == Max({0, r.attempts - 1})
  <1>1. r.attempts \in 0..MaxAttempts /\ MaxAttempts \in Nat
    BY AuthenticationAssumption DEF ChallengeRows
  <1>2. left = IF r.attempts = 0 THEN 0 ELSE r.attempts - 1
    BY <1>1, MaxPair
  <1>3. left \in 0..MaxAttempts
    BY <1>1, <1>2
  <1>4. FailedAttempt(r) = [r EXCEPT !.attempts = left,
                                     !.status = IF left = 0 THEN "failed" ELSE "sent"]
    BY DEF FailedAttempt
  <1> HIDE DEF left
  <1> QED
    BY <1>2, <1>3, <1>4 DEF ChallengeRows

\* A row of the grants.
LEMMA GrantFields ==
    ASSUME NEW r \in GrantRows
    PROVE  /\ r.challenge \in Challenges /\ r.phone \in Phones /\ r.purpose \in Purposes
           /\ r.user \in Bearers /\ r.consumed \in BOOLEAN /\ r.expired \in BOOLEAN
           /\ r.uses \in Nat /\ r # NoGrant
           /\ [r EXCEPT !.consumed = TRUE, !.uses = r.uses + 1] \in GrantRows
           /\ [r EXCEPT !.expired = TRUE] \in GrantRows
           /\ [r EXCEPT !.user = NoUser] \in GrantRows
  <1>1. "phone" \in DOMAIN r /\ DOMAIN NoGrant = {"challenge"}
    BY DEF GrantRows, NoGrant
  <1>2. r # NoGrant
    BY <1>1
  <1>3. NoUser \in Bearers
    BY DEF Bearers
  <1>4. /\ r.challenge \in Challenges /\ r.phone \in Phones /\ r.purpose \in Purposes
        /\ r.user \in Bearers /\ r.uses \in Nat
    BY DEF GrantRows
  <1>5. r.consumed \in BOOLEAN /\ r.expired \in BOOLEAN
    BY DEF GrantRows
  <1>6. [r EXCEPT !.consumed = TRUE, !.uses = r.uses + 1] \in GrantRows
    <2>1. \A n \in Nat : [r EXCEPT !.consumed = TRUE, !.uses = n] \in GrantRows
      BY DEF GrantRows
    <2>2. r.uses + 1 \in Nat
      BY <1>4
    <2> QED
      BY <2>1, <2>2
  <1>7. [r EXCEPT !.expired = TRUE] \in GrantRows
    BY DEF GrantRows
  <1>8. [r EXCEPT !.user = NoUser] \in GrantRows
    BY <1>3 DEF GrantRows
  <1> QED
    BY <1>2, <1>4, <1>5, <1>6, <1>7, <1>8

\* Rows that exist.
LEMMA CodesThere ==
    ASSUME CodesTyped
    PROVE  /\ DOMAIN challenges = Challenges /\ DOMAIN grants = Grants
           /\ \A c \in Challenges : challenges[c] = NoChallenge \/ challenges[c] \in ChallengeRows
           /\ \A g \in Grants : grants[g] = NoGrant \/ grants[g] \in GrantRows
  BY DEF CodesTyped

\* A grant that is spent was there.
LEMMA ConsumedTyped ==
    ASSUME CodesTyped, NEW g \in Grants, grants[g] # NoGrant
    PROVE  Consumed(g) \in [Grants -> GrantRows \cup {NoGrant}]
  <1>1. [grants[g] EXCEPT !.consumed = TRUE, !.uses = grants[g].uses + 1] \in GrantRows
    BY CodesThere, GrantFields
  <1>2. Consumed(g) = [grants EXCEPT ![g] =
                         [grants[g] EXCEPT !.consumed = TRUE, !.uses = grants[g].uses + 1]]
    BY DEF Consumed, CodesTyped
  <1> QED
    BY <1>1, <1>2 DEF CodesTyped

LEMMA ForgottenTyped ==
    ASSUME CodesTyped, NEW u
    PROVE  /\ ForgetUser(challenges, NoChallenge, u) \in [Challenges -> ChallengeRows \cup {NoChallenge}]
           /\ \A t \in [Grants -> GrantRows \cup {NoGrant}] :
                ForgetUser(t, NoGrant, u) \in [Grants -> GrantRows \cup {NoGrant}]
  <1>1. \A r \in ChallengeRows : [r EXCEPT !.user = NoUser] \in ChallengeRows
    BY ChallengeFields
  <1>2. \A r \in GrantRows : [r EXCEPT !.user = NoUser] \in GrantRows
    BY GrantFields
  <1>3. ForgetUser(challenges, NoChallenge, u) \in [Challenges -> ChallengeRows \cup {NoChallenge}]
    BY <1>1, CodesThere DEF ForgetUser
  <1>4. ASSUME NEW t \in [Grants -> GrantRows \cup {NoGrant}]
        PROVE  ForgetUser(t, NoGrant, u) \in [Grants -> GrantRows \cup {NoGrant}]
    BY <1>2 DEF ForgetUser
  <1> QED
    BY <1>3, <1>4

\* Every step keeps codes, grants and the request in progress well formed.
LEMMA CodeTypes ==
    ASSUME CodesTyped, [Next]_vars
    PROVE  CodesTyped'
  <1>1. CASE UNCHANGED <<challenges, grants, call>>
    BY <1>1 DEF CodesTyped
  <1>2. CASE Begins
    <2>1. call' \in Calls
      BY <1>2 DEF Begins, Calls
    <2> QED
      BY <1>2, <2>1 DEF Begins, CodesTyped
  <1>3. CASE InsertChallenge
    <2> DEFINE c == Min(Free(challenges, NoChallenge))
    <2>1. /\ grants' = grants
          /\ \/ challenges' = challenges /\ call' = Idle
             \/ /\ Free(challenges, NoChallenge) # {}
                /\ challenges' = [challenges EXCEPT ![c] = NewChallenge(call)]
                /\ call' = [step |-> "sending", challenge |-> c]
      BY <1>3 DEF InsertChallenge
    <2>2. NewChallenge(call) \in ChallengeRows
      <3>1. call.phone \in Phones /\ call.purpose \in Purposes /\ call.user \in Bearers
        BY <1>3, CallFields DEF InsertChallenge, CodesTyped
      <3>2. MaxAttempts \in 0..MaxAttempts
        BY AuthenticationAssumption
      <3> QED
        BY <3>1, <3>2 DEF NewChallenge, ChallengeRows
    <2>3. Free(challenges, NoChallenge) # {} => c \in Challenges
      BY FreeIds
    <2> HIDE DEF c
    <2> QED
      BY <2>1, <2>2, <2>3 DEF CodesTyped, Calls
  <1>4. CASE SendSucceeds \/ SendFails
    <2> DEFINE c == call.challenge
    <2>1. c \in Challenges
      BY <1>4, CallFields DEF SendSucceeds, SendFails, CodesTyped
    <2>2. /\ grants' = grants /\ call' = Idle
          /\ \/ challenges' = challenges
             \/ /\ challenges[c].status = "pending"
                /\ challenges' = [challenges EXCEPT ![c] =
                                    [challenges[c] EXCEPT !.status = "sent", !.known = TRUE]]
             \/ /\ challenges[c] # NoChallenge
                /\ challenges' = [challenges EXCEPT ![c] = [challenges[c] EXCEPT !.status = "failed"]]
      <3>1. CASE SendSucceeds
        BY <2>1, <3>1 DEF SendSucceeds, CodesTyped
      <3>2. CASE SendFails
        BY <2>1, <3>2 DEF SendFails, CodesTyped
      <3> QED
        BY <1>4, <3>1, <3>2
    <2>3. challenges[c] # NoChallenge => challenges[c] \in ChallengeRows
      BY <2>1, CodesThere
    <2>4. challenges[c].status = "pending" => challenges[c] # NoChallenge
      BY DEF NoChallenge
    <2>5. challenges' \in [Challenges -> ChallengeRows \cup {NoChallenge}]
      BY <2>1, <2>2, <2>3, <2>4, ChallengeFields DEF CodesTyped
    <2> QED
      BY <2>2, <2>5 DEF CodesTyped, Calls
  <1>5. ASSUME NEW c \in Challenges, VerifyFails(c) \/ ChallengeExpires(c) PROVE CodesTyped'
    <2>1. challenges[c] \in ChallengeRows
      BY <1>5, CodesThere DEF VerifyFails, Answerable, ChallengeExpires
    <2>2. PICK r \in ChallengeRows : challenges' = [challenges EXCEPT ![c] = r]
      BY <1>5, <2>1, ChallengeFields, FailedFields DEF VerifyFails, ChallengeExpires, CodesTyped
    <2> QED
      BY <1>5, <2>2 DEF VerifyFails, ChallengeExpires, CodesTyped
  <1>6. ASSUME NEW c \in Challenges, VerifyLogsIn(c) \/ VerifyGrants(c) PROVE CodesTyped'
    <2> DEFINE r == [challenges[c] EXCEPT !.status = "verified", !.answered = challenges[c].answered + 1]
               g == Min(Free(grants, NoGrant))
    <2>1. challenges[c] \in ChallengeRows
      BY <1>6, CodesThere DEF VerifyLogsIn, VerifyGrants, CanVerify, Answerable
    <2>2. challenges' = [challenges EXCEPT ![c] = r] /\ r \in ChallengeRows
      BY <1>6, <2>1, ChallengeFields DEF VerifyLogsIn, VerifyGrants, Verified, CodesTyped
    <2>3. grants' \in [Grants -> GrantRows \cup {NoGrant}]
      <3>1. CASE VerifyLogsIn(c)
        BY <3>1 DEF VerifyLogsIn, CodesTyped
      <3>2. CASE VerifyGrants(c)
        <4>1. g \in Grants /\ grants' = [grants EXCEPT ![g] = NewGrant(c)]
          BY <3>2, FreeIds DEF VerifyGrants
        <4>2. NewGrant(c) \in GrantRows
          BY <2>1, ChallengeFields DEF NewGrant, GrantRows
        <4> HIDE DEF g
        <4> QED
          BY <4>1, <4>2 DEF CodesTyped
      <3> QED
        BY <1>6, <3>1, <3>2
    <2>4. call' = call
      BY <1>6 DEF VerifyLogsIn, VerifyGrants
    <2> HIDE DEF r
    <2> QED
      BY <2>2, <2>3, <2>4 DEF CodesTyped
  <1>7. ASSUME NEW g \in Grants, CancelRegistration(g) PROVE CodesTyped'
    BY <1>7 DEF CancelRegistration, CodesTyped
  <1>8. ASSUME NEW g \in Grants, GrantExpires(g) PROVE CodesTyped'
    <2>1. grants[g] \in GrantRows
      BY <1>8, CodesThere DEF GrantExpires
    <2>2. grants' = [grants EXCEPT ![g] = [grants[g] EXCEPT !.expired = TRUE]]
          /\ [grants[g] EXCEPT !.expired = TRUE] \in GrantRows
      BY <1>8, <2>1, GrantFields DEF GrantExpires, CodesTyped
    <2> QED
      BY <1>8, <2>2 DEF GrantExpires, CodesTyped
  <1>9. ASSUME NEW g \in Grants, Spends(g) PROVE CodesTyped'
    BY <1>9, ConsumedTyped DEF Spends, Usable, CodesTyped
  <1>10. CASE PurgeExpiredAuthState
    BY <1>10 DEF PurgeExpiredAuthState, CodesTyped
  <1>11. CASE Erases
    <2>1. ASSUME NEW u \in Users, EraseAccount(u) PROVE CodesTyped'
      <3>1. /\ challenges' = ForgetUser(challenges, NoChallenge, u)
            /\ grants' = ForgetUser(grants, NoGrant, u) /\ call' = call
        BY <2>1 DEF EraseAccount
      <3> QED
        BY <3>1, ForgottenTyped DEF CodesTyped
    <2>2. ASSUME NEW g \in Grants, EraseQualifyingBannedAccount(g) PROVE CodesTyped'
      <3>1. /\ challenges' = ForgetUser(challenges, NoChallenge, grants[g].user)
            /\ grants' = ForgetUser(Consumed(g), NoGrant, grants[g].user) /\ call' = call
            /\ grants[g] # NoGrant
        BY <2>2 DEF EraseQualifyingBannedAccount, Usable
      <3> QED
        BY <3>1, ConsumedTyped, ForgottenTyped DEF CodesTyped
    <2> QED
      BY <1>11, <2>1, <2>2 DEF Erases
  <1> QED
    BY <1>1, <1>2, <1>3, <1>4, <1>5, <1>6, <1>7, <1>8, <1>9, <1>10, <1>11, CodeMoves

-----------------------------------------------------------------------------
(* Rate limits.                                                            *)

\* What passed is counted, and within the limit.
Within(b) == buckets[b].passed <= buckets[b].count /\ buckets[b].passed <= Limits[b.type]

BucketInv ==
    /\ buckets \in [BucketNames -> BucketRows]
    /\ \A b \in BucketNames : Within(b)

\* A bucket that would let another request through.
Passes(b) == Fresh(b) \/ (~buckets[b].cooling /\ ~(buckets[b].count >= Limits[b.type]))

\* A request or a failed login is charged; what it lets through, every bucket passes.
Charges(bs) ==
    \/ buckets' = Charged(bs, FALSE)
    \/ buckets' = Charged(bs, TRUE) /\ \A b \in bs : Passes(b)

\* What a step does to the buckets.
LEMMA BucketMoves ==
    ASSUME [Next]_vars
    PROVE  \/ UNCHANGED buckets
           \/ \E bs : Charges(bs) \/ buckets' = Cleared(bs)
           \/ \E b \in BucketNames : CooldownEnds(b) \/ WindowEnds(b)
  <1>1. CASE UNCHANGED vars
    BY <1>1 DEF vars, authVars
  <1>2. CASE Codes(Purposes, Phones)
    <2>1. CASE InsertChallenge
      <3> DEFINE bs == BucketsFor(call.phone, call.client, call.address, call.purpose)
      <3>1. \/ UNCHANGED buckets
            \/ buckets' = Charged(bs, FALSE)
            \/ buckets' = Charged(bs, TRUE) /\ ~\E b \in bs : Refuses(b)
        BY <2>1 DEF InsertChallenge
      <3>2. \A b \in bs : ~Refuses(b) => Passes(b)
        BY DEF Refuses, Passes
      <3> HIDE DEF bs
      <3> QED
        BY <3>1, <3>2 DEF Charges
    <2> QED
      BY <1>2, <2>1 DEF Codes, RequestPhoneCode, SendSucceeds
  <1>3. CASE Answers \/ CodeFaults \/ CodeLifetimes \/ Registrations
    BY <1>3 DEF Answers, CodeFaults, CodeLifetimes, Registrations, VerifyLogsIn, VerifyGrants, SendFails,
                Crash, VerifyFails, ChallengeExpires, GrantExpires, PurgeExpiredAuthState,
                CompleteRegistration, CancelRegistration
  <1>4. CASE Credentials \/ Erasures
    BY <1>4 DEF Credentials, Erasures, ResetPassword, CompletePhoneChange, ChangePassword, EraseAccount,
                EraseQualifyingBannedAccount, authVars
  <1>5. CASE Logins
    <2>1. ASSUME NEW p \in Phones, NEW c \in Clients, NEW a \in Addresses, LoginWithPassword(p, c, a)
          PROVE  \E bs : Charges(bs) \/ buckets' = Cleared(bs)
      <3> DEFINE bs == BucketsFor(p, c, a, "login")
      <3>1. /\ \A b \in bs : ~LoginRefused(b)
            /\ buckets' = Cleared(bs) \/ buckets' = Charged(bs, TRUE)
        BY <2>1 DEF LoginWithPassword
      <3>2. \A b \in bs : ~LoginRefused(b) => Passes(b)
        BY DEF LoginRefused, Passes
      <3> HIDE DEF bs
      <3> QED
        BY <3>1, <3>2 DEF Charges
    <2> QED
      BY <1>5, <2>1 DEF Logins
  <1>6. CASE RateLimits
    BY <1>6 DEF RateLimits
  <1>7. CASE Logouts \/ Refreshes
    BY <1>7 DEF Logouts, Refreshes, LogoutAllSessions, LogoutCurrentSession, RefreshSession, authVars
  <1>8. CASE \/ CoreSessions \/ SessionLifetimes \/ StatusChanges \/ Attachments \/ QualifyingBans
             \/ AdministrativeBlocks
    BY <1>8 DEF CoreSessions, SessionLifetimes, StatusChanges, Attachments, QualifyingBans,
                AdministrativeBlocks, authVars
  <1> QED
    BY <1>1, <1>2, <1>3, <1>4, <1>5, <1>6, <1>7, <1>8 DEF Next

\* The fields of a bucket.
LEMMA BucketFields ==
    ASSUME BucketInv, NEW b \in BucketNames
    PROVE  /\ buckets[b].count \in Nat /\ buckets[b].passed \in Nat
           /\ buckets[b].cooling \in BOOLEAN /\ buckets[b].elapsed \in BOOLEAN
           /\ Limits[b.type] \in Nat /\ Limits[b.type] >= 1
           /\ Within(b)
  <1>1. buckets[b] \in BucketRows
    BY DEF BucketInv
  <1>2. buckets[b].count \in Nat /\ buckets[b].passed \in Nat
    BY <1>1 DEF BucketRows
  <1>3. buckets[b].cooling \in BOOLEAN /\ buckets[b].elapsed \in BOOLEAN
    BY <1>1 DEF BucketRows
  <1>4. b.type \in BucketTypes
    BY DEF BucketNames, BucketTypes
  <1>5. Limits[b.type] \in Nat \ {0}
    BY <1>4, AuthenticationAssumption
  <1> QED
    BY <1>2, <1>3, <1>5 DEF BucketInv

\* A bucket.
LEMMA BucketMade ==
    ASSUME NEW n \in Nat, NEW c \in BOOLEAN, NEW e \in BOOLEAN, NEW k \in Nat
    PROVE  [count |-> n, cooling |-> c, elapsed |-> e, passed |-> k] \in BucketRows
  BY DEF BucketRows

\* A charge keeps every bucket within its limit.
LEMMA ChargeWithin ==
    ASSUME BucketInv, NEW bs, Charges(bs)
    PROVE  BucketInv'
  <1>1. PICK pass \in {0, 1} :
          /\ buckets' = [b \in BucketNames |->
                IF b \notin bs THEN buckets[b]
                ELSE IF Fresh(b)
                THEN [count |-> 1, cooling |-> FALSE, elapsed |-> FALSE, passed |-> pass]
                ELSE IF buckets[b].cooling THEN buckets[b]
                ELSE [count |-> Min({buckets[b].count + 1, Limits[b.type] + 1}),
                      cooling |-> buckets[b].count + 1 > Limits[b.type],
                      elapsed |-> FALSE, passed |-> buckets[b].passed + pass]]
          /\ pass = 1 => \A b \in bs : Passes(b)
    <2>1. CASE buckets' = Charged(bs, FALSE)
      BY <2>1 DEF Charged
    <2>2. CASE buckets' = Charged(bs, TRUE) /\ \A b \in bs : Passes(b)
      BY <2>2 DEF Charged
    <2> QED
      BY <2>1, <2>2 DEF Charges
  <1>2. ASSUME NEW b \in BucketNames
        PROVE  /\ buckets'[b] \in BucketRows
               /\ buckets'[b].passed <= buckets'[b].count /\ buckets'[b].passed <= Limits[b.type]
    <2> DEFINE n == Min({buckets[b].count + 1, Limits[b.type] + 1})
    <2>1. /\ buckets[b].count \in Nat /\ buckets[b].passed \in Nat
          /\ Limits[b.type] \in Nat /\ Limits[b.type] >= 1
          /\ buckets[b].passed <= buckets[b].count /\ buckets[b].passed <= Limits[b.type]
          /\ buckets[b] \in BucketRows
      BY BucketFields DEF Within, BucketInv
    <2>2. CASE b \notin bs \/ (~Fresh(b) /\ buckets[b].cooling)
      <3>1. buckets'[b] = buckets[b]
        BY <1>1, <2>2
      <3> QED
        BY <2>1, <3>1
    <2>3. CASE b \in bs /\ Fresh(b)
      <3>1. buckets'[b] = [count |-> 1, cooling |-> FALSE, elapsed |-> FALSE, passed |-> pass]
        BY <1>1, <2>3
      <3>2. buckets'[b] \in BucketRows
        BY <3>1, BucketMade
      <3>3. buckets'[b].passed = pass /\ buckets'[b].count = 1
        BY <3>1
      <3> QED
        BY <2>1, <3>2, <3>3
    <2>4. CASE b \in bs /\ ~Fresh(b) /\ ~buckets[b].cooling
      <3>1. buckets'[b] = [count |-> n, cooling |-> buckets[b].count + 1 > Limits[b.type],
                           elapsed |-> FALSE, passed |-> buckets[b].passed + pass]
        BY <1>1, <2>4
      <3>2. n = IF buckets[b].count + 1 <= Limits[b.type] + 1
                THEN buckets[b].count + 1 ELSE Limits[b.type] + 1
        BY <2>1, MinPair
      <3> HIDE DEF n
      <3>3. n \in Nat /\ buckets[b].passed + pass \in Nat
        BY <2>1, <3>2
      <3>4. buckets'[b] \in BucketRows
        <4>1. (buckets[b].count + 1 > Limits[b.type]) \in BOOLEAN
          OBVIOUS
        <4> QED
          BY <3>1, <3>3, <4>1, BucketMade
      <3>5. buckets'[b].passed = buckets[b].passed + pass /\ buckets'[b].count = n
        BY <3>1
      <3>6. pass = 1 => ~(buckets[b].count >= Limits[b.type])
        BY <1>1, <2>4 DEF Passes
      <3> QED
        BY <2>1, <3>2, <3>4, <3>5, <3>6
    <2> QED
      BY <2>2, <2>3, <2>4
  <1>3. buckets' \in [BucketNames -> BucketRows]
    BY <1>1, <1>2
  <1> QED
    BY <1>2, <1>3 DEF BucketInv, Within

\* Every step keeps every bucket within its limit.
LEMMA BucketsWithin ==
    ASSUME BucketInv, [Next]_vars
    PROVE  BucketInv'
  <1>1. CASE UNCHANGED buckets
    BY <1>1 DEF BucketInv, Within
  <1>2. ASSUME NEW bs, Charges(bs) PROVE BucketInv'
    BY <1>2, ChargeWithin
  <1>3. ASSUME NEW bs, buckets' = Cleared(bs) PROVE BucketInv'
    <2>1. NoBucket \in BucketRows /\ NoBucket.passed = 0 /\ NoBucket.count = 0
      BY BucketMade DEF NoBucket
    <2>2. \A b \in BucketNames : buckets'[b] = NoBucket \/ buckets'[b] = buckets[b]
      BY <1>3 DEF Cleared
    <2>3. buckets' \in [BucketNames -> BucketRows]
      BY <1>3, <2>1 DEF Cleared, BucketInv
    <2>4. \A b \in BucketNames : Limits[b.type] >= 0
      BY BucketFields
    <2> QED
      BY <2>1, <2>2, <2>3, <2>4 DEF BucketInv, Within
  <1>4. ASSUME NEW b \in BucketNames, CooldownEnds(b) \/ WindowEnds(b) PROVE BucketInv'
    <2>1. buckets[b] \in BucketRows
      BY DEF BucketInv
    <2>2. PICK r \in BucketRows : /\ buckets' = [buckets EXCEPT ![b] = r]
                                 /\ r.passed = buckets[b].passed /\ r.count = buckets[b].count
      <3>1. CASE CooldownEnds(b)
        <4> DEFINE r == [buckets[b] EXCEPT !.cooling = FALSE]
        <4>1. r \in BucketRows /\ r.passed = buckets[b].passed /\ r.count = buckets[b].count
          BY <2>1 DEF BucketRows
        <4>2. buckets' = [buckets EXCEPT ![b] = r]
          BY <3>1 DEF CooldownEnds, BucketInv
        <4> QED
          BY <4>1, <4>2
      <3>2. CASE WindowEnds(b)
        <4> DEFINE r == [buckets[b] EXCEPT !.elapsed = TRUE]
        <4>1. r \in BucketRows /\ r.passed = buckets[b].passed /\ r.count = buckets[b].count
          BY <2>1 DEF BucketRows
        <4>2. buckets' = [buckets EXCEPT ![b] = r]
          BY <3>2 DEF WindowEnds, BucketInv
        <4> QED
          BY <4>1, <4>2
      <3> QED
        BY <1>4, <3>1, <3>2
    <2> QED
      BY <2>2 DEF BucketInv, Within
  <1> QED
    BY <1>1, <1>2, <1>3, <1>4, BucketMoves

-----------------------------------------------------------------------------
(* The answers to a challenge and the uses of a grant.                     *)

\* Each answer beyond the first was paid for with an attempt; with the last attempt the
\* challenge is closed.
Budget(r) ==
    /\ r.attempts = 0 => r.status = "failed"
    /\ r.answered + r.attempts <= MaxAttempts + (IF r.status = "verified" THEN 1 ELSE 0)

KnownUser(u) == u = NoUser \/ u \in Registered

Answered(c) ==
    /\ Budget(challenges[c]) /\ KnownUser(challenges[c].user)
    /\ Cardinality(GrantsOf(c)) <= challenges[c].answered

UsesCounted(r) == r.uses = IF r.consumed THEN 1 ELSE 0

\* A grant belongs to a challenge that exists.
Backed(g) ==
    LET c == challenges[grants[g].challenge] IN
    /\ c # NoChallenge
    /\ c.phone = grants[g].phone /\ c.purpose = grants[g].purpose /\ c.user = grants[g].user

\* Until the provider has answered, nobody can answer the challenge that is being sent.
Unsent(r) == r = NoChallenge \/ (r.status = "pending" /\ ~r.known)

CodeInv ==
    /\ \A c \in Challenges : challenges[c] # NoChallenge => Answered(c)
    /\ \A g \in Grants : grants[g] # NoGrant => UsesCounted(grants[g]) /\ Backed(g)
    /\ call.step = "sending" => Unsent(challenges[call.challenge])

\* The grants of a challenge are finitely many.
LEMMA GrantsFinite ==
    ASSUME NEW c
    PROVE  IsFiniteSet(GrantsOf(c)) /\ Cardinality(GrantsOf(c)) \in Nat
  <1>1. GrantsOf(c) \subseteq Grants /\ IsFiniteSet(Grants)
    BY AuthenticationAssumption DEF GrantsOf
  <1>2. IsFiniteSet(GrantsOf(c))
    BY <1>1, FS_Subset
  <1> QED
    BY <1>2, FS_CardinalityType

LEMMA FewerGrants ==
    ASSUME NEW c, GrantsOf(c)' \subseteq GrantsOf(c)
    PROVE  Cardinality(GrantsOf(c)') <= Cardinality(GrantsOf(c)) /\ Cardinality(GrantsOf(c)') \in Nat
  <1>1. IsFiniteSet(GrantsOf(c)) /\ IsFiniteSet(GrantsOf(c)')
    BY GrantsFinite, FS_Subset
  <1> QED
    BY <1>1, FS_Subset, FS_CardinalityType

\* A challenge, and a grant, that a step leaves what they are.
ChallengeKept(c) ==
    challenges'[c] # NoChallenge =>
        /\ challenges[c] # NoChallenge
        /\ challenges'[c].phone = challenges[c].phone /\ challenges'[c].purpose = challenges[c].purpose
        /\ challenges'[c].answered >= challenges[c].answered
        /\ Budget(challenges'[c]) /\ KnownUser(challenges[c].user)'

GrantKept(g) ==
    grants'[g] # NoGrant =>
        /\ grants[g] # NoGrant
        /\ grants'[g].challenge = grants[g].challenge
        /\ grants'[g].phone = grants[g].phone /\ grants'[g].purpose = grants[g].purpose
        /\ UsesCounted(grants'[g])
        /\ challenges'[grants[g].challenge] # NoChallenge
        /\ challenges'[grants[g].challenge].user = grants'[g].user

SendingKept == call'.step = "sending" => Unsent(challenges'[call'.challenge])

\* A step that leaves them what they are, and makes none, keeps the invariant.
LEMMA RowsKept ==
    ASSUME CodesTyped, CodesTyped', CodeInv, \A c \in Challenges : ChallengeKept(c),
           \A g \in Grants : GrantKept(g), SendingKept
    PROVE  CodeInv'
  <1>1. ASSUME NEW c \in Challenges, challenges'[c] # NoChallenge PROVE Answered(c)'
    <2>1. GrantsOf(c)' \subseteq GrantsOf(c)
      BY DEF GrantsOf, GrantKept
    <2>2. Cardinality(GrantsOf(c)') <= Cardinality(GrantsOf(c)) /\ Cardinality(GrantsOf(c)') \in Nat
      BY <2>1, FewerGrants
    <2>3. challenges[c] # NoChallenge /\ Cardinality(GrantsOf(c)) <= challenges[c].answered
          /\ challenges'[c].answered >= challenges[c].answered
      BY <1>1 DEF ChallengeKept, CodeInv, Answered
    <2>4. Cardinality(GrantsOf(c)) \in Nat /\ challenges[c].answered \in Nat
          /\ challenges'[c].answered \in Nat
      <3>1. challenges[c] \in ChallengeRows /\ challenges'[c] \in ChallengeRows
        BY <1>1, <2>3, CodesThere DEF CodesTyped
      <3> QED
        BY <3>1, GrantsFinite, ChallengeFields
    <2>5. Cardinality(GrantsOf(c)') <= challenges'[c].answered
      BY <2>2, <2>3, <2>4
    <2> QED
      BY <1>1, <2>5 DEF ChallengeKept, Answered, Budget
  <1>2. ASSUME NEW g \in Grants, grants'[g] # NoGrant
        PROVE  UsesCounted(grants'[g]) /\ Backed(g)'
    <2> DEFINE c == grants[g].challenge
    <2>1. c \in Challenges /\ Backed(g)
      BY <1>2, CodesThere, GrantFields DEF GrantKept, CodeInv
    <2>2. ChallengeKept(c) /\ GrantKept(g)
      BY <2>1
    <2> QED
      BY <1>2, <2>1, <2>2 DEF ChallengeKept, GrantKept, Backed
  <1> QED
    BY <1>1, <1>2 DEF CodeInv, SendingKept, UsesCounted, Unsent

\* What is known of a challenge and a grant that exist.
LEMMA CodeFacts ==
    ASSUME CodesTyped, CodeInv
    PROVE  /\ \A c \in Challenges : challenges[c] # NoChallenge =>
                /\ challenges[c] \in ChallengeRows /\ Budget(challenges[c])
                /\ KnownUser(challenges[c].user)
                /\ challenges[c].answered \in Nat /\ challenges[c].attempts \in 0..MaxAttempts
           /\ \A g \in Grants : grants[g] # NoGrant =>
                /\ grants[g] \in GrantRows /\ UsesCounted(grants[g])
                /\ grants[g].challenge \in Challenges
                /\ challenges[grants[g].challenge] # NoChallenge
                /\ challenges[grants[g].challenge].phone = grants[g].phone
                /\ challenges[grants[g].challenge].purpose = grants[g].purpose
                /\ challenges[grants[g].challenge].user = grants[g].user
  <1>1. ASSUME NEW c \in Challenges, challenges[c] # NoChallenge
        PROVE  /\ challenges[c] \in ChallengeRows /\ Budget(challenges[c])
               /\ KnownUser(challenges[c].user)
               /\ challenges[c].answered \in Nat /\ challenges[c].attempts \in 0..MaxAttempts
    BY <1>1, CodesThere, ChallengeFields DEF CodeInv, Answered
  <1>2. ASSUME NEW g \in Grants, grants[g] # NoGrant
        PROVE  /\ grants[g] \in GrantRows /\ UsesCounted(grants[g])
               /\ grants[g].challenge \in Challenges /\ Backed(g)
    BY <1>2, CodesThere, GrantFields DEF CodeInv
  <1> QED
    BY <1>1, <1>2 DEF Backed

\* Nothing happens to the codes, and nobody is erased.
LEMMA QuietRows ==
    ASSUME CodesTyped, CodeInv, Registered \subseteq Registered'
    PROVE  /\ \A c \in Challenges : challenges'[c] = challenges[c] => ChallengeKept(c)
           /\ UNCHANGED <<challenges, grants>> => \A g \in Grants : GrantKept(g)
           /\ UNCHANGED <<challenges, call>> => SendingKept
  <1>1. ASSUME NEW c \in Challenges, challenges'[c] = challenges[c] PROVE ChallengeKept(c)
    <2>1. SUFFICES ASSUME challenges[c] # NoChallenge
                   PROVE  /\ challenges[c].answered >= challenges[c].answered
                          /\ Budget(challenges[c]) /\ KnownUser(challenges[c].user)'
      BY <1>1 DEF ChallengeKept
    <2>2. KnownUser(challenges[c].user) /\ Budget(challenges[c]) /\ challenges[c].answered \in Nat
      BY <2>1, CodeFacts
    <2> QED
      BY <1>1, <2>2 DEF KnownUser
  <1>2. ASSUME UNCHANGED <<challenges, grants>>, NEW g \in Grants PROVE GrantKept(g)
    BY <1>2, CodeFacts DEF GrantKept
  <1>3. ASSUME UNCHANGED <<challenges, call>> PROVE SendingKept
    BY <1>3 DEF SendingKept, CodeInv
  <1> QED
    BY <1>1, <1>2, <1>3

\* One challenge changes: its answer, its status, its deadline.
LEMMA ChallengeChanges ==
    ASSUME CodesTyped, CodesTyped', CodeInv, Registered \subseteq Registered',
           NEW c \in Challenges, challenges[c] # NoChallenge, NEW r \in ChallengeRows,
           challenges' = [challenges EXCEPT ![c] = r], UNCHANGED grants,
           r.phone = challenges[c].phone, r.purpose = challenges[c].purpose,
           r.user = challenges[c].user, r.answered >= challenges[c].answered, Budget(r),
           \/ call' = Idle
           \/ call' = call /\ (call.step = "sending" /\ call.challenge = c => Unsent(r))
    PROVE  CodeInv'
  <1>1. /\ challenges'[c] = r /\ r # NoChallenge
        /\ \A d \in Challenges : d # c => challenges'[d] = challenges[d]
    BY ChallengeFields DEF CodesTyped
  <1>2. ChallengeKept(c)
    <2>1. KnownUser(challenges[c].user)'
      BY <1>1, CodeFacts DEF KnownUser
    <2> QED
      BY <1>1, <2>1 DEF ChallengeKept
  <1>3. \A d \in Challenges : ChallengeKept(d)
    BY <1>1, <1>2, QuietRows
  <1>4. ASSUME NEW g \in Grants PROVE GrantKept(g)
    <2>1. SUFFICES ASSUME grants[g] # NoGrant
                   PROVE  /\ UsesCounted(grants[g])
                          /\ challenges'[grants[g].challenge] # NoChallenge
                          /\ challenges'[grants[g].challenge].user = grants[g].user
      BY DEF GrantKept
    <2> QED
      BY <1>1, <2>1, CodeFacts
  <1>5. SendingKept
    <2>1. CASE call' = Idle
      BY <2>1 DEF SendingKept, Idle
    <2>2. CASE call' = call /\ (call.step = "sending" /\ call.challenge = c => Unsent(r))
      <3>1. call.step = "sending" => call.challenge \in Challenges /\ Unsent(challenges[call.challenge])
        BY CallFields DEF CodeInv, CodesTyped
      <3> QED
        BY <1>1, <2>2, <3>1 DEF SendingKept
    <2> QED
      BY <2>1, <2>2
  <1> QED
    BY <1>3, <1>4, <1>5, RowsKept

\* One grant changes: it is spent, or its deadline passes.
LEMMA GrantChanges ==
    ASSUME CodesTyped, CodesTyped', CodeInv, Registered \subseteq Registered',
           NEW g \in Grants, grants[g] # NoGrant, NEW r \in GrantRows,
           grants' = [grants EXCEPT ![g] = r], UNCHANGED <<challenges, call>>,
           r.challenge = grants[g].challenge, r.phone = grants[g].phone,
           r.purpose = grants[g].purpose, r.user = grants[g].user, UsesCounted(r)
    PROVE  CodeInv'
  <1>1. grants'[g] = r /\ \A h \in Grants : h # g => grants'[h] = grants[h]
    BY DEF CodesTyped
  <1>2. \A h \in Grants : GrantKept(h)
    BY <1>1, CodeFacts DEF GrantKept
  <1> QED
    BY <1>2, QuietRows, RowsKept

\* A wrong answer, at any status.
LEMMA FailedBudget ==
    ASSUME NEW r \in ChallengeRows, Budget(r)
    PROVE  Budget(FailedAttempt(r))
  <1>1. /\ r.attempts \in 0..MaxAttempts /\ r.answered \in Nat /\ MaxAttempts \in Nat
    BY ChallengeFields, AuthenticationAssumption
  <1>2. /\ FailedAttempt(r).answered = r.answered
        /\ FailedAttempt(r).attempts = IF r.attempts = 0 THEN 0 ELSE r.attempts - 1
        /\ FailedAttempt(r).status = IF FailedAttempt(r).attempts = 0 THEN "failed" ELSE "sent"
    BY FailedFields
  <1>3. FailedAttempt(r).status # "verified"
    BY <1>2
  <1>4. CASE r.attempts = 0
    <2>1. r.status = "failed" /\ r.answered <= MaxAttempts
      BY <1>1, <1>4 DEF Budget
    <2> QED
      BY <1>1, <1>2, <1>3, <1>4, <2>1 DEF Budget
  <1>5. CASE r.attempts # 0
    <2>1. r.answered + r.attempts <= MaxAttempts + 1
      BY <1>1 DEF Budget
    <2>2. r.answered + (r.attempts - 1) <= MaxAttempts
      BY <1>1, <2>1
    <2> QED
      BY <1>1, <1>2, <1>3, <1>5, <2>2 DEF Budget
  <1> QED
    BY <1>4, <1>5

\* A right answer, to a challenge that is open.
LEMMA VerifiedBudget ==
    ASSUME NEW r \in ChallengeRows, Budget(r), r.status = "sent",
           NEW v, v = [r EXCEPT !.status = "verified", !.answered = r.answered + 1]
    PROVE  /\ v \in ChallengeRows /\ Budget(v) /\ v.answered = r.answered + 1
           /\ v.phone = r.phone /\ v.purpose = r.purpose /\ v.user = r.user
  <1>1. /\ r.attempts \in 0..MaxAttempts /\ r.answered \in Nat /\ MaxAttempts \in Nat
    BY ChallengeFields, AuthenticationAssumption
  <1>2. /\ v.answered = r.answered + 1 /\ v.attempts = r.attempts /\ v.status = "verified"
        /\ v.phone = r.phone /\ v.purpose = r.purpose /\ v.user = r.user
    BY DEF ChallengeRows
  <1>3. r.attempts # 0 /\ r.answered + r.attempts <= MaxAttempts
    BY <1>1 DEF Budget
  <1>4. Budget(v)
    BY <1>1, <1>2, <1>3 DEF Budget
  <1> QED
    BY <1>2, <1>4, ChallengeFields

\* The provider answered.
LEMMA SendStep ==
    ASSUME CodesTyped, CodesTyped', CodeInv, Registered \subseteq Registered',
           SendSucceeds \/ SendFails
    PROVE  CodeInv'
  <1> DEFINE c == call.challenge
             r == challenges[c]
  <1>1. c \in Challenges /\ Unsent(r)
    BY CallFields DEF SendSucceeds, SendFails, CodesTyped, CodeInv
  <1>2. UNCHANGED grants /\ call' = Idle
    BY DEF SendSucceeds, SendFails
  <1>3. CASE challenges' = challenges
    <2>1. SendingKept
      BY <1>2 DEF SendingKept, Idle
    <2> QED
      BY <1>2, <1>3, <2>1, QuietRows, RowsKept
  <1>4. ASSUME NEW status \in {"sent", "failed"}, NEW s, challenges[c] # NoChallenge,
               s = [r EXCEPT !.status = status] \/ s = [r EXCEPT !.status = status, !.known = TRUE],
               s \in ChallengeRows, challenges' = [challenges EXCEPT ![c] = s]
        PROVE  CodeInv'
    <2>1. /\ r \in ChallengeRows /\ Budget(r) /\ r.status = "pending"
      BY <1>1, <1>4, CodesThere DEF CodeInv, Answered, Unsent
    <2>2. /\ s.phone = r.phone /\ s.purpose = r.purpose /\ s.user = r.user /\ s.answered = r.answered
          /\ s.attempts = r.attempts /\ s.status = status
      BY <1>4, <2>1 DEF ChallengeRows
    <2>3. Budget(s) /\ r.answered \in Nat
      BY <2>1, <2>2, ChallengeFields DEF Budget
    <2>4. s.answered >= r.answered
      BY <2>2, <2>3
    <2> QED
      BY <1>1, <1>2, <1>4, <2>2, <2>3, <2>4, ChallengeChanges
  <1>5. \/ challenges' = challenges
        \/ /\ challenges[c].status = "pending"
           /\ challenges' = [challenges EXCEPT ![c] = [r EXCEPT !.status = "sent", !.known = TRUE]]
        \/ /\ challenges[c] # NoChallenge
           /\ challenges' = [challenges EXCEPT ![c] = [r EXCEPT !.status = "failed"]]
    <2>1. CASE SendSucceeds
      BY <1>1, <2>1 DEF SendSucceeds, CodesTyped
    <2>2. CASE SendFails
      BY <1>1, <2>2 DEF SendFails, CodesTyped
    <2> QED
      BY <2>1, <2>2
  <1>6. challenges[c].status = "pending" => challenges[c] # NoChallenge
    BY DEF NoChallenge
  <1>7. challenges[c] # NoChallenge =>
          /\ [r EXCEPT !.status = "sent", !.known = TRUE] \in ChallengeRows
          /\ [r EXCEPT !.status = "failed"] \in ChallengeRows
    BY <1>1, CodesThere, ChallengeFields
  <1> QED
    BY <1>3, <1>4, <1>5, <1>6, <1>7

\* A challenge is answered, rightly or not, or its deadline passes.
LEMMA AnswerStep ==
    ASSUME CodesTyped, CodesTyped', CodeInv, Registered \subseteq Registered', NEW c \in Challenges,
           VerifyFails(c) \/ VerifyLogsIn(c) \/ ChallengeExpires(c)
    PROVE  CodeInv'
  <1> DEFINE r == challenges[c]
  <1>1. r # NoChallenge
    BY DEF VerifyFails, VerifyLogsIn, CanVerify, Answerable, ChallengeExpires
  <1>2. r \in ChallengeRows /\ Budget(r) /\ r.answered \in Nat
    BY <1>1, CodeFacts
  <1>3. UNCHANGED grants /\ call' = call
    BY DEF VerifyFails, VerifyLogsIn, ChallengeExpires
  <1>4. r.known => ~(call.step = "sending" /\ call.challenge = c)
    BY <1>1 DEF CodeInv, Unsent
  <1>5. CASE VerifyFails(c)
    <2>1. challenges' = [challenges EXCEPT ![c] = FailedAttempt(r)] /\ r.known
      BY <1>5 DEF VerifyFails, CodesTyped, Answerable
    <2>2. /\ FailedAttempt(r) \in ChallengeRows
          /\ FailedAttempt(r).phone = r.phone /\ FailedAttempt(r).purpose = r.purpose
          /\ FailedAttempt(r).user = r.user /\ FailedAttempt(r).answered >= r.answered
      BY <1>2, FailedFields
    <2>3. Budget(FailedAttempt(r))
      BY <1>2, FailedBudget
    <2> QED
      BY <1>1, <1>3, <1>4, <2>1, <2>2, <2>3, ChallengeChanges
  <1>6. CASE VerifyLogsIn(c)
    <2> DEFINE v == [r EXCEPT !.status = "verified", !.answered = r.answered + 1]
    <2>1. challenges' = [challenges EXCEPT ![c] = v] /\ r.known /\ r.status = "sent"
      BY <1>6 DEF VerifyLogsIn, Verified, CodesTyped, Answerable, CanVerify
    <2> HIDE DEF r
    <2>2. /\ v \in ChallengeRows /\ Budget(v) /\ v.answered = r.answered + 1
          /\ v.phone = r.phone /\ v.purpose = r.purpose /\ v.user = r.user
      BY <1>2, <2>1, VerifiedBudget
    <2> USE DEF r
    <2> HIDE DEF v
    <2>3. v.answered >= r.answered
      BY <1>2, <2>2
    <2> QED
      BY <1>1, <1>3, <1>4, <2>1, <2>2, <2>3, ChallengeChanges
  <1>7. CASE ChallengeExpires(c)
    <2> DEFINE v == [r EXCEPT !.expired = TRUE]
    <2>1. challenges' = [challenges EXCEPT ![c] = v] /\ v \in ChallengeRows
      BY <1>2, <1>7, ChallengeFields DEF ChallengeExpires, CodesTyped
    <2>2. /\ v.phone = r.phone /\ v.purpose = r.purpose /\ v.user = r.user
          /\ v.answered = r.answered /\ v.status = r.status /\ v.known = r.known
          /\ v.attempts = r.attempts
      BY <1>2 DEF ChallengeRows
    <2> HIDE DEF v
    <2>3. Budget(v) /\ v.answered >= r.answered
      BY <1>2, <2>2 DEF Budget
    <2>4. call.step = "sending" /\ call.challenge = c => Unsent(v)
      BY <1>1, <2>2 DEF CodeInv, Unsent
    <2> QED
      BY <1>1, <1>3, <2>1, <2>2, <2>3, <2>4, ChallengeChanges
  <1> QED
    BY <1>5, <1>6, <1>7

\* A code is requested: a new challenge, without grants.
LEMMA InsertStep ==
    ASSUME CodesTyped, CodesTyped', CodeInv, Registered \subseteq Registered', InsertChallenge
    PROVE  CodeInv'
  <1> DEFINE r == NewChallenge(call)
  <1>1. CASE challenges' = challenges /\ call' = Idle
    <2>1. SendingKept
      BY <1>1 DEF SendingKept, Idle
    <2> QED
      BY <1>1, <2>1, QuietRows, RowsKept DEF InsertChallenge
  <1>2. ASSUME NEW c, c \in Free(challenges, NoChallenge), KnownUser(call.user),
               challenges' = [challenges EXCEPT ![c] = r],
               call' = [step |-> "sending", challenge |-> c]
        PROVE  CodeInv'
    <2>1. c \in Challenges /\ challenges[c] = NoChallenge
      BY <1>2, FreeIds
    <2>2. UNCHANGED grants
      BY DEF InsertChallenge
    <2>3. /\ challenges'[c] = r
          /\ \A d \in Challenges : d # c => challenges'[d] = challenges[d]
      BY <1>2, <2>1 DEF CodesTyped
    <2>4. /\ r.user = call.user /\ r.status = "pending" /\ ~r.known /\ r.answered = 0
          /\ r.attempts = MaxAttempts
      BY DEF NewChallenge
    <2> HIDE DEF r
    <2>5. Budget(r)
      BY <2>4, AuthenticationAssumption DEF Budget
    <2>6. GrantsOf(c)' = {}
      <3>1. \A g \in Grants : grants[g] # NoGrant => grants[g].challenge # c
        BY <2>1, CodeFacts
      <3> QED
        BY <2>2, <3>1 DEF GrantsOf
    <2>7. Answered(c)'
      <3>1. Cardinality(GrantsOf(c)') = 0
        BY <2>6, FS_EmptySet
      <3>2. KnownUser(challenges[c].user)'
        BY <1>2, <2>3, <2>4 DEF KnownUser
      <3> QED
        BY <2>3, <2>4, <2>5, <3>1, <3>2 DEF Answered, Budget
    <2>8. ASSUME NEW d \in Challenges, d # c, challenges'[d] # NoChallenge PROVE Answered(d)'
      <3>1. Answered(d) /\ challenges'[d] = challenges[d]
        BY <2>3, <2>8 DEF CodeInv
      <3> QED
        BY <2>2, <3>1 DEF Answered, KnownUser, GrantsOf, Budget
    <2>9. ASSUME NEW g \in Grants, grants'[g] # NoGrant PROVE UsesCounted(grants'[g]) /\ Backed(g)'
      <3>1. /\ grants[g] # NoGrant /\ UsesCounted(grants[g]) /\ Backed(g)
            /\ grants[g].challenge \in Challenges /\ grants[g].challenge # c
        BY <2>1, <2>2, <2>9, CodeFacts DEF CodeInv
      <3> QED
        BY <2>2, <2>3, <3>1 DEF Backed
    <2>10. call'.step = "sending" => Unsent(challenges'[call'.challenge])
      BY <1>2, <2>3, <2>4 DEF Unsent
    <2> QED
      BY <2>7, <2>8, <2>9, <2>10 DEF CodeInv, UsesCounted, Unsent
  <1>3. \/ challenges' = challenges /\ call' = Idle
        \/ /\ Free(challenges, NoChallenge) # {} /\ KnownUser(call.user)
           /\ challenges' = [challenges EXCEPT ![Min(Free(challenges, NoChallenge))] = r]
           /\ call' = [step |-> "sending", challenge |-> Min(Free(challenges, NoChallenge))]
    BY DEF InsertChallenge, KnownUser
  <1> HIDE DEF r
  <1> QED
    BY <1>1, <1>2, <1>3, FreeIds

\* A right answer that issues a grant.
LEMMA GrantStep ==
    ASSUME CodesTyped, CodesTyped', CodeInv, Registered \subseteq Registered', NEW c \in Challenges,
           VerifyGrants(c)
    PROVE  CodeInv'
  <1> DEFINE r == challenges[c]
             v == [r EXCEPT !.status = "verified", !.answered = r.answered + 1]
             h == Min(Free(grants, NoGrant))
             n == NewGrant(c)
  <1>1. /\ r # NoChallenge /\ r.known /\ r.status = "sent" /\ call' = call
        /\ challenges' = [challenges EXCEPT ![c] = v]
        /\ grants' = [grants EXCEPT ![h] = n] /\ Free(grants, NoGrant) # {}
    BY DEF VerifyGrants, CanVerify, Answerable, Verified, CodesTyped
  <1>2. r \in ChallengeRows /\ Budget(r) /\ r.answered \in Nat /\ KnownUser(r.user)
    BY <1>1, CodeFacts
  <1>3. h \in Grants /\ grants[h] = NoGrant
    BY <1>1, FreeIds
  <1>4. /\ n.challenge = c /\ n.phone = r.phone /\ n.purpose = r.purpose /\ n.user = r.user
        /\ UsesCounted(n) /\ n # NoGrant
    <2>1. /\ n.challenge = c /\ n.phone = r.phone /\ n.purpose = r.purpose /\ n.user = r.user
          /\ n.uses = 0 /\ ~n.consumed
      BY DEF NewGrant
    <2>2. "phone" \in DOMAIN n /\ DOMAIN NoGrant = {"challenge"}
      BY DEF NewGrant, NoGrant
    <2> HIDE DEF n
    <2>3. n # NoGrant
      BY <2>2
    <2> QED
      BY <2>1, <2>3 DEF UsesCounted
  <1>5. /\ v \in ChallengeRows /\ Budget(v) /\ v.answered = r.answered + 1
        /\ v.phone = r.phone /\ v.purpose = r.purpose /\ v.user = r.user
    BY <1>1, <1>2, VerifiedBudget
  <1>6. v # NoChallenge
    BY <1>5, ChallengeFields
  <1> HIDE DEF h, n, v
  <1>7. /\ challenges'[c] = v /\ grants'[h] = n
        /\ \A d \in Challenges : d # c => challenges'[d] = challenges[d]
        /\ \A g \in Grants : g # h => grants'[g] = grants[g]
    BY <1>1, <1>3 DEF CodesTyped
  <1>8. GrantsOf(c)' = GrantsOf(c) \cup {h} /\ h \notin GrantsOf(c)
    BY <1>3, <1>4, <1>7 DEF GrantsOf
  <1>9. \A d \in Challenges : d # c => GrantsOf(d)' = GrantsOf(d)
    BY <1>3, <1>4, <1>7 DEF GrantsOf
  <1>10. Answered(c)'
    <2>1. Cardinality(GrantsOf(c)') = Cardinality(GrantsOf(c)) + 1
      BY <1>8, GrantsFinite, FS_AddElement
    <2>2. Cardinality(GrantsOf(c)) <= r.answered
      BY <1>1 DEF CodeInv, Answered
    <2>3. Cardinality(GrantsOf(c)') <= v.answered
      BY <1>2, <1>5, <2>1, <2>2, GrantsFinite
    <2>4. KnownUser(challenges[c].user)'
      BY <1>2, <1>5, <1>7 DEF KnownUser
    <2> HIDE DEF r
    <2> QED
      BY <1>5, <1>7, <2>3, <2>4 DEF Answered, Budget
  <1>11. ASSUME NEW d \in Challenges, d # c, challenges'[d] # NoChallenge PROVE Answered(d)'
    <2>1. Answered(d) /\ challenges'[d] = challenges[d] /\ GrantsOf(d)' = GrantsOf(d)
      BY <1>7, <1>9, <1>11 DEF CodeInv
    <2> QED
      BY <2>1 DEF Answered, KnownUser, Budget
  <1>12. ASSUME NEW g \in Grants, grants'[g] # NoGrant PROVE UsesCounted(grants'[g]) /\ Backed(g)'
    <2>1. CASE g = h
      BY <1>4, <1>5, <1>6, <1>7, <2>1 DEF Backed
    <2>2. CASE g # h
      <3>1. /\ grants'[g] = grants[g] /\ grants[g] # NoGrant /\ UsesCounted(grants[g]) /\ Backed(g)
            /\ grants[g].challenge \in Challenges
        BY <1>7, <1>12, <2>2, CodeFacts DEF CodeInv
      <3> QED
        BY <1>5, <1>6, <1>7, <3>1 DEF Backed
    <2> QED
      BY <2>1, <2>2
  <1>13. call'.step = "sending" => Unsent(challenges'[call'.challenge])
    <2>1. call.step = "sending" => call.challenge \in Challenges /\ Unsent(challenges[call.challenge])
      BY CallFields DEF CodeInv, CodesTyped
    <2>2. ~(call.step = "sending" /\ call.challenge = c)
      BY <1>1, <2>1 DEF Unsent
    <2> QED
      BY <1>1, <1>7, <2>1, <2>2
  <1> QED
    BY <1>10, <1>11, <1>12, <1>13 DEF CodeInv, UsesCounted, Unsent

\* A grant is spent.
LEMMA SpendStep ==
    ASSUME CodesTyped, NEW g \in Grants, grants[g] # NoGrant, UsesCounted(grants[g]), ~grants[g].consumed
    PROVE  \E r \in GrantRows :
              /\ Consumed(g) = [grants EXCEPT ![g] = r]
              /\ r.challenge = grants[g].challenge /\ r.phone = grants[g].phone
              /\ r.purpose = grants[g].purpose /\ r.user = grants[g].user /\ UsesCounted(r)
  <1> DEFINE r == [grants[g] EXCEPT !.consumed = TRUE, !.uses = grants[g].uses + 1]
  <1>1. grants[g] \in GrantRows /\ r \in GrantRows
    BY CodesThere, GrantFields
  <1>2. Consumed(g) = [grants EXCEPT ![g] = r]
    BY DEF Consumed, CodesTyped
  <1>3. /\ r.challenge = grants[g].challenge /\ r.phone = grants[g].phone
        /\ r.purpose = grants[g].purpose /\ r.user = grants[g].user
        /\ r.consumed /\ r.uses = grants[g].uses + 1
    BY <1>1 DEF GrantRows
  <1>4. grants[g].uses = 0
    BY DEF UsesCounted
  <1> HIDE DEF r
  <1>5. UsesCounted(r)
    BY <1>3, <1>4 DEF UsesCounted
  <1> QED
    BY <1>1, <1>2, <1>3, <1>5

LEMMA GrantStepKeeps ==
    ASSUME CodesTyped, CodesTyped', CodeInv, Registered \subseteq Registered', NEW g \in Grants,
           Spends(g) \/ GrantExpires(g)
    PROVE  CodeInv'
  <1>1. grants[g] # NoGrant /\ UNCHANGED <<challenges, call>>
    BY DEF Spends, Usable, GrantExpires
  <1>2. grants[g] \in GrantRows /\ UsesCounted(grants[g])
    BY <1>1, CodeFacts
  <1>3. CASE Spends(g)
    <2>1. ~grants[g].consumed /\ grants' = Consumed(g)
      BY <1>3 DEF Spends, Usable
    <2> QED
      BY <1>1, <1>2, <2>1, SpendStep, GrantChanges
  <1>4. CASE GrantExpires(g)
    <2> DEFINE r == [grants[g] EXCEPT !.expired = TRUE]
    <2>1. grants' = [grants EXCEPT ![g] = r] /\ r \in GrantRows
      BY <1>2, <1>4, GrantFields DEF GrantExpires, CodesTyped
    <2>2. /\ r.challenge = grants[g].challenge /\ r.phone = grants[g].phone
          /\ r.purpose = grants[g].purpose /\ r.user = grants[g].user
          /\ r.consumed = grants[g].consumed /\ r.uses = grants[g].uses
      BY <1>2 DEF GrantRows
    <2> HIDE DEF r
    <2>3. UsesCounted(r)
      BY <1>2, <2>2 DEF UsesCounted
    <2> QED
      BY <1>1, <2>1, <2>2, <2>3, GrantChanges
  <1> QED
    BY <1>3, <1>4

\* Rows go: a cancelled registration, and the cleanup.
LEMMA RemovalStep ==
    ASSUME CodesTyped, CodesTyped', CodeInv, Registered \subseteq Registered',
           PurgeExpiredAuthState \/ \E g \in Grants : CancelRegistration(g)
    PROVE  CodeInv'
  <1>1. call' = call
    BY DEF PurgeExpiredAuthState, CancelRegistration
  <1>2. /\ \A c \in Challenges : challenges'[c] = challenges[c] \/ challenges'[c] = NoChallenge
        /\ \A g \in Grants : grants'[g] = grants[g] \/ grants'[g] = NoGrant
        /\ \A g \in Grants : grants'[g] # NoGrant =>
             challenges'[grants[g].challenge] = challenges[grants[g].challenge]
    <2>1. ASSUME NEW g \in Grants, CancelRegistration(g)
          PROVE  /\ \A c \in Challenges : challenges'[c] = challenges[c] \/ challenges'[c] = NoChallenge
                 /\ \A h \in Grants : grants'[h] = grants[h] \/ grants'[h] = NoGrant
                 /\ \A h \in Grants : grants'[h] # NoGrant =>
                      challenges'[grants[h].challenge] = challenges[grants[h].challenge]
      <3> DEFINE d == grants[g].challenge
      <3>1. /\ challenges' = [challenges EXCEPT ![d] = NoChallenge]
            /\ grants' = [grants EXCEPT ![g] = NoGrant]
            /\ GrantsOf(d) = {g}
        BY <2>1 DEF CancelRegistration
      <3>2. \A h \in Grants : grants[h] # NoGrant /\ grants[h].challenge = d => h = g
        BY <3>1 DEF GrantsOf
      <3> HIDE DEF d
      <3> QED
        BY <3>1, <3>2, CodesThere, CodeFacts
    <2>2. CASE PurgeExpiredAuthState
      <3>1. ASSUME NEW g \in Grants, grants'[g] # NoGrant
            PROVE  challenges'[grants[g].challenge] = challenges[grants[g].challenge]
        <4>1. g \notin ExpiredGrants /\ grants[g] # NoGrant
          BY <2>2, <3>1 DEF PurgeExpiredAuthState
        <4>2. grants[g].challenge \notin ExpiredChallenges
          BY <2>2, <4>1 DEF PurgeExpiredAuthState, GrantsOf
        <4> QED
          BY <2>2, <4>1, <4>2, CodeFacts DEF PurgeExpiredAuthState
      <3> QED
        BY <2>2, <3>1 DEF PurgeExpiredAuthState
    <2> QED
      BY <2>1, <2>2
  <1>3. \A c \in Challenges : ChallengeKept(c)
    <2>1. ASSUME NEW c \in Challenges, challenges'[c] = NoChallenge PROVE ChallengeKept(c)
      BY <2>1 DEF ChallengeKept
    <2> QED
      BY <1>2, <2>1, QuietRows
  <1>4. \A g \in Grants : GrantKept(g)
    <2>1. ASSUME NEW g \in Grants, grants'[g] # NoGrant PROVE GrantKept(g)
      <3>1. grants'[g] = grants[g] /\ grants[g] # NoGrant
            /\ challenges'[grants[g].challenge] = challenges[grants[g].challenge]
        BY <1>2, <2>1
      <3> QED
        BY <3>1, CodeFacts DEF GrantKept
    <2> QED
      BY <2>1 DEF GrantKept
  <1>5. SendingKept
    <2>1. call.step = "sending" => call.challenge \in Challenges /\ Unsent(challenges[call.challenge])
      BY CallFields DEF CodeInv, CodesTyped
    <2> QED
      BY <1>1, <1>2, <2>1 DEF SendingKept, Unsent
  <1> QED
    BY <1>3, <1>4, <1>5, RowsKept

\* An account is erased: its codes and grants forget whose they were.
LEMMA ForgetStep ==
    ASSUME CodesTyped, CodesTyped', CodeInv, NEW u, Registered \ {u} \subseteq Registered',
           NEW t \in [Grants -> GrantRows \cup {NoGrant}],
           \A g \in Grants : t[g] # NoGrant =>
              /\ grants[g] # NoGrant
              /\ t[g].challenge = grants[g].challenge /\ t[g].phone = grants[g].phone
              /\ t[g].purpose = grants[g].purpose /\ t[g].user = grants[g].user /\ UsesCounted(t[g]),
           challenges' = ForgetUser(challenges, NoChallenge, u),
           grants' = ForgetUser(t, NoGrant, u), call' = call
    PROVE  CodeInv'
  <1>1. ASSUME NEW c \in Challenges
        PROVE  /\ challenges[c] = NoChallenge => challenges'[c] = NoChallenge
               /\ challenges[c] # NoChallenge =>
                    /\ challenges'[c] # NoChallenge
                    /\ challenges'[c].phone = challenges[c].phone
                    /\ challenges'[c].purpose = challenges[c].purpose
                    /\ challenges'[c].answered = challenges[c].answered
                    /\ challenges'[c].attempts = challenges[c].attempts
                    /\ challenges'[c].status = challenges[c].status
                    /\ challenges'[c].known = challenges[c].known
                    /\ challenges'[c].user =
                         IF challenges[c].user = u THEN NoUser ELSE challenges[c].user
    <2>1. challenges'[c] = IF challenges[c] # NoChallenge /\ challenges[c].user = u
                           THEN [challenges[c] EXCEPT !.user = NoUser] ELSE challenges[c]
      BY CodesThere DEF ForgetUser
    <2>2. CASE challenges[c] = NoChallenge
      BY <2>1, <2>2
    <2>3. CASE challenges[c] # NoChallenge
      <3>1. challenges[c] \in ChallengeRows
        BY <2>3, CodesThere
      <3>2. CASE challenges[c].user = u
        <4>1. challenges'[c] = [challenges[c] EXCEPT !.user = NoUser] /\ challenges'[c] \in ChallengeRows
          BY <2>1, <2>3, <3>1, <3>2, ChallengeFields
        <4>2. challenges'[c] # NoChallenge
          BY <4>1, ChallengeFields
        <4> QED
          BY <2>3, <3>1, <3>2, <4>1, <4>2 DEF ChallengeRows
      <3> QED
        BY <2>1, <2>3, <3>2
    <2> QED
      BY <2>2, <2>3
  <1>2. ASSUME NEW g \in Grants
        PROVE  /\ t[g] = NoGrant => grants'[g] = NoGrant
               /\ t[g] # NoGrant =>
                    /\ grants'[g].challenge = t[g].challenge /\ grants'[g].phone = t[g].phone
                    /\ grants'[g].purpose = t[g].purpose /\ UsesCounted(grants'[g])
                    /\ grants'[g].user = IF t[g].user = u THEN NoUser ELSE t[g].user
    <2>1. grants'[g] = IF t[g] # NoGrant /\ t[g].user = u
                       THEN [t[g] EXCEPT !.user = NoUser] ELSE t[g]
      BY DEF ForgetUser
    <2>2. CASE t[g] # NoGrant /\ t[g].user = u
      <3>1. grants'[g] = [t[g] EXCEPT !.user = NoUser] /\ t[g] \in GrantRows /\ UsesCounted(t[g])
        BY <2>1, <2>2
      <3>2. /\ grants'[g].challenge = t[g].challenge /\ grants'[g].phone = t[g].phone
            /\ grants'[g].purpose = t[g].purpose /\ grants'[g].user = NoUser
            /\ grants'[g].uses = t[g].uses /\ grants'[g].consumed = t[g].consumed
        BY <3>1 DEF GrantRows
      <3> QED
        BY <2>2, <3>1, <3>2 DEF UsesCounted
    <2> QED
      BY <2>1, <2>2
  <1>3. ASSUME NEW c \in Challenges PROVE ChallengeKept(c)
    <2>1. SUFFICES ASSUME challenges'[c] # NoChallenge PROVE ChallengeKept(c)
      BY DEF ChallengeKept
    <2>2. /\ challenges[c] # NoChallenge /\ Budget(challenges[c]) /\ KnownUser(challenges[c].user)
          /\ challenges[c].answered \in Nat
      BY <1>1, <2>1, CodeFacts
    <2>3. KnownUser(challenges[c].user)'
      BY <1>1, <2>2 DEF KnownUser
    <2>4. Budget(challenges'[c]) /\ challenges'[c].answered >= challenges[c].answered
      BY <1>1, <2>2 DEF Budget
    <2> QED
      BY <1>1, <2>2, <2>3, <2>4 DEF ChallengeKept
  <1>4. ASSUME NEW g \in Grants PROVE GrantKept(g)
    <2>1. SUFFICES ASSUME grants'[g] # NoGrant PROVE GrantKept(g)
      BY DEF GrantKept
    <2>2. t[g] # NoGrant /\ grants[g] # NoGrant
      BY <1>2, <2>1
    <2>3. /\ grants[g].challenge \in Challenges /\ challenges[grants[g].challenge] # NoChallenge
          /\ challenges[grants[g].challenge].user = grants[g].user
      BY <2>2, CodeFacts
    <2> QED
      BY <1>1, <1>2, <2>2, <2>3 DEF GrantKept
  <1>5. SendingKept
    <2>1. call.step = "sending" => call.challenge \in Challenges /\ Unsent(challenges[call.challenge])
      BY CallFields DEF CodeInv, CodesTyped
    <2> QED
      BY <1>1, <2>1 DEF SendingKept, Unsent
  <1> QED
    BY <1>3, <1>4, <1>5, RowsKept

LEMMA EraseStep ==
    ASSUME AccountTypeOK, CodesTyped, CodesTyped', CodeInv, Erases
    PROVE  CodeInv'
  <1>1. ASSUME NEW u \in Users, EraseAccount(u) PROVE CodeInv'
    <2>1. /\ challenges' = ForgetUser(challenges, NoChallenge, u)
          /\ grants' = ForgetUser(grants, NoGrant, u) /\ call' = call
          /\ Registered \ {u} \subseteq Registered'
      BY <1>1, ErasedOnly DEF EraseAccount
    <2>2. grants \in [Grants -> GrantRows \cup {NoGrant}]
      BY DEF CodesTyped
    <2> QED
      BY <2>1, <2>2, CodeFacts, ForgetStep
  <1>2. ASSUME NEW g \in Grants, EraseQualifyingBannedAccount(g) PROVE CodeInv'
    <2>1. PICK u : u = grants[g].user
      OBVIOUS
    <2>2. /\ challenges' = ForgetUser(challenges, NoChallenge, u)
          /\ grants' = ForgetUser(Consumed(g), NoGrant, u) /\ call' = call
          /\ Registered \ {u} \subseteq Registered'
          /\ grants[g] # NoGrant /\ ~grants[g].consumed
      BY <1>2, <2>1, ErasedOnly DEF EraseQualifyingBannedAccount, Usable
    <2>3. UsesCounted(grants[g])
      BY <2>2, CodeFacts
    <2>4. PICK r \in GrantRows :
              /\ Consumed(g) = [grants EXCEPT ![g] = r]
              /\ r.challenge = grants[g].challenge /\ r.phone = grants[g].phone
              /\ r.purpose = grants[g].purpose /\ r.user = grants[g].user /\ UsesCounted(r)
      BY <2>2, <2>3, SpendStep
    <2>5. PICK t \in [Grants -> GrantRows \cup {NoGrant}] : t = [grants EXCEPT ![g] = r]
      BY DEF CodesTyped
    <2>6. /\ t[g] = r /\ \A h \in Grants : h # g => t[h] = grants[h]
      BY <2>5 DEF CodesTyped
    <2>7. \A h \in Grants : t[h] # NoGrant =>
              /\ grants[h] # NoGrant
              /\ t[h].challenge = grants[h].challenge /\ t[h].phone = grants[h].phone
              /\ t[h].purpose = grants[h].purpose /\ t[h].user = grants[h].user /\ UsesCounted(t[h])
      BY <2>2, <2>4, <2>6, CodeFacts
    <2>8. grants' = ForgetUser(t, NoGrant, u)
      BY <2>2, <2>4, <2>5
    <2> QED
      BY <2>2, <2>7, <2>8, ForgetStep
  <1> QED
    BY <1>1, <1>2 DEF Erases

\* Every step keeps the invariant of the codes.
LEMMA CodesKept ==
    ASSUME AccountTypeOK, CodesTyped, CodeInv, [Next]_vars
    PROVE  CodeInv'
  <1>1. CodesTyped'
    BY CodeTypes
  <1>2. CASE Erases
    BY <1>1, <1>2, EraseStep
  <1>3. CASE ~Erases
    <2>1. Registered \subseteq Registered'
      BY <1>3, RegisteredStay
    <2>2. CASE UNCHANGED <<challenges, grants, call>>
      BY <1>1, <2>1, <2>2, QuietRows, RowsKept
    <2>3. CASE Begins
      <3>1. SendingKept
        BY <2>3 DEF Begins, SendingKept, Idle
      <3> QED
        BY <1>1, <2>1, <2>3, <3>1, QuietRows, RowsKept DEF Begins
    <2> QED
      BY <1>1, <1>3, <2>1, <2>2, <2>3, InsertStep, SendStep, AnswerStep, GrantStep, GrantStepKeeps,
         RemovalStep, CodeMoves
  <1> QED
    BY <1>2, <1>3

-----------------------------------------------------------------------------
(* The databases a behaviour starts from, and the theorems.                *)

\* The ledger of the phones that are registered already.
LEMMA StartedLedger ==
    ASSUME NEW start \in Starts, StartedFrom(start)
    PROVE  LedgerTypeOK
  <1> DEFINE owned(p) == \E i \in DOMAIN start : start[i] = p
             op(p) == CHOOSE i \in DOMAIN start : start[i] = p
             first(p) == Event(1, 1, "status", "generation_started", op(p), 0)
             second(p) == Event(1, 2, "sanction", "generation_started", op(p), 0)
  <1>1. /\ start \in Seq(Phones) /\ Len(start) <= MaxOperations /\ Len(start) \in Nat
        /\ DOMAIN start = 1..Len(start) /\ MaxOperations \in Nat
    BY AuthenticationAssumption, LedgerAssumption
  <1>2. 1 \in 1..MaxGenerations
    BY LedgerAssumption
  <1>3. reputations \in [Phones -> Rows \cup {NoRow}]
    <2>1. NewRow(1) \in Rows
      BY <1>2, LedgerAssumption DEF NewRow, Rows
    <2> QED
      BY <2>1 DEF StartedFrom
  <1>4. ASSUME NEW p \in Phones, owned(p) PROVE <<first(p), second(p)>> \in Seq(Events)
    <2>1. op(p) \in DOMAIN start
      BY <1>4
    <2>2. op(p) \in 1..MaxOperations
      BY <1>1, <2>1
    <2> HIDE DEF op
    <2>3. first(p) \in Events /\ second(p) \in Events
      BY <1>2, <2>2, EventType DEF EventTypes
    <2> HIDE DEF first, second
    <2> QED
      BY <2>3
  <1>5. ledger = [p \in Phones |-> IF ~owned(p) THEN <<>> ELSE <<first(p), second(p)>>]
    BY DEF StartedFrom
  <1> HIDE DEF first, second, owned
  <1>6. ledger \in [Phones -> Seq(Events)]
    BY <1>4, <1>5
  <1>7. operations \in Seq(OperationRows)
    <2>1. \A i \in DOMAIN start :
            [phone |-> start[i], generation |-> 1, sanctions |-> 1, statuses |-> 1] \in OperationRows
      BY <1>1, <1>2 DEF OperationRows
    <2>2. operations = [i \in DOMAIN start |->
            [phone |-> start[i], generation |-> 1, sanctions |-> 1, statuses |-> 1]]
      BY DEF StartedFrom
    <2>3. operations \in [1..Len(start) -> OperationRows]
      BY <1>1, <2>1, <2>2
    <2> QED
      BY <1>1, <2>3
  <1> QED
    BY <1>3, <1>6, <1>7 DEF LedgerTypeOK, OperationRows

LEMMA StartedTypes ==
    ASSUME Init
    PROVE  AccountTypeOK /\ CodesTyped /\ CodeInv /\ BucketInv
  <1>1. PICK start \in Starts : StartedFrom(start)
    BY DEF Init
  <1>2. start \in Seq(Phones) /\ DOMAIN start \subseteq Users
    BY AuthenticationAssumption
  <1>3. families \in [Users -> Seq(Families)]
    BY SessionInit DEF SessionInv
  <1>4. users \in [Users -> {"absent", "active", "suspended", "erased"}]
    BY <1>1 DEF StartedFrom
  <1>5. identities \subseteq Identities
    <2>1. \A i \in DOMAIN start : start[i] \in Phones \cup Subjects /\ i \in Users
      BY <1>2
    <2>2. \A i \in DOMAIN start : [user |-> i, subject |-> start[i], status |-> "active"] \in Identities
      BY <2>1, IdentityType
    <2>3. identities = {[user |-> i, subject |-> start[i], status |-> "active"] : i \in DOMAIN start}
      BY <1>1 DEF StartedFrom
    <2> QED
      BY <2>2, <2>3
  <1>6. passwords \subseteq Users /\ bans \subseteq Bans
    BY <1>1, <1>2 DEF StartedFrom
  <1>7. AccountTypeOK
    BY <1>1, <1>3, <1>4, <1>5, <1>6, StartedLedger DEF AccountTypeOK
  <1>8. /\ challenges = [c \in Challenges |-> NoChallenge]
        /\ grants = [g \in Grants |-> NoGrant]
        /\ buckets = [b \in BucketNames |-> NoBucket] /\ call = Idle
    BY <1>1 DEF StartedFrom
  <1>9. CodesTyped
    BY <1>8 DEF CodesTyped, Calls
  <1>10. CodeInv
    BY <1>8 DEF CodeInv, Idle
  <1>11. BucketInv
    <2>1. NoBucket \in BucketRows /\ NoBucket.passed = 0 /\ NoBucket.count = 0
      BY BucketMade DEF NoBucket
    <2>2. buckets \in [BucketNames -> BucketRows]
      BY <1>8, <2>1
    <2>3. ASSUME NEW b \in BucketNames PROVE Within(b)
      <3>1. b.type \in BucketTypes
        BY DEF BucketNames, BucketTypes
      <3>2. Limits[b.type] \in Nat
        BY <3>1, AuthenticationAssumption
      <3> QED
        BY <1>8, <2>1, <3>2 DEF Within
    <2> QED
      BY <2>2, <2>3 DEF BucketInv
  <1> QED
    BY <1>7, <1>9, <1>10, <1>11

\* Types, codes and buckets together.
AuthInv == AccountTypeOK /\ CodesTyped /\ CodeInv /\ BucketInv

LEMMA AuthTyped ==
    ASSUME AuthInv
    PROVE  TypeOK
  BY DEF AuthInv, CodesTyped, BucketInv, TypeOK

LEMMA AuthInvariant == Spec => [](AuthInv /\ SessionInv)
  <1>1. Init => AuthInv
    BY StartedTypes DEF AuthInv
  <1>2. ASSUME AuthInv, SessionInv, [Next]_vars PROVE AuthInv'
    <2>1. AccountTypeOK'
      BY <1>2, AuthTyped, DatabaseTypes
    <2>2. CodesTyped' /\ CodeInv' /\ BucketInv'
      BY <1>2, CodeTypes, CodesKept, BucketsWithin DEF AuthInv
    <2> QED
      BY <2>1, <2>2 DEF AuthInv
  <1> QED
    BY <1>1, <1>2, SessionInvariant, PTL DEF Spec

\* Every table stays well formed (the schema of the account database).
THEOREM AccountTypes == Spec => []TypeOK
  BY AuthInvariant, AuthTyped, PTL

\* However a challenge is reopened, each further right answer was paid for with an
\* attempt, and it has no more grants than right answers (verify_phone_code).
THEOREM AttemptsArePaid == Spec => []AttemptBudget
  <1>1. AuthInv => AttemptBudget
    <2> SUFFICES ASSUME AuthInv, NEW c \in Challenges, challenges[c] # NoChallenge
                 PROVE  /\ challenges[c].answered <= 1 + MaxAttempts - challenges[c].attempts
                        /\ challenges[c].attempts = 0 => challenges[c].status = "failed"
                        /\ Cardinality(GrantsOf(c)) <= challenges[c].answered
      BY DEF AttemptBudget
    <2>1. Answered(c) /\ challenges[c].answered \in Nat /\ challenges[c].attempts \in 0..MaxAttempts
      BY CodeFacts DEF AuthInv, CodeInv
    <2>2. MaxAttempts \in Nat
      BY AuthenticationAssumption
    <2> QED
      BY <2>1, <2>2 DEF Answered, Budget
  <1> QED
    BY <1>1, AuthInvariant, PTL

\* A grant is accepted once at most, and belongs to what was verified: its challenge
\* exists, and its user does.
THEOREM GrantsAreSpentOnce == Spec => []GrantSpentOnce
  <1>1. AuthInv => GrantSpentOnce
    <2> SUFFICES ASSUME AuthInv, NEW g \in Grants, grants[g] # NoGrant
                 PROVE  LET row == grants[g]
                            c == challenges[row.challenge]
                        IN  /\ row.uses <= 1 /\ (row.uses = 1 <=> row.consumed)
                            /\ c # NoChallenge
                            /\ c.phone = row.phone /\ c.purpose = row.purpose /\ c.user = row.user
                            /\ row.user = NoUser \/ row.user \in Registered
      BY DEF GrantSpentOnce
    <2>1. /\ UsesCounted(grants[g]) /\ Backed(g) /\ grants[g].challenge \in Challenges
          /\ grants[g].consumed \in BOOLEAN
      BY CodeFacts, GrantFields DEF AuthInv, CodeInv
    <2>2. KnownUser(grants[g].user)
      BY <2>1, CodeFacts DEF AuthInv, Backed
    <2>3. grants[g].uses <= 1 /\ (grants[g].uses = 1 <=> grants[g].consumed)
      BY <2>1 DEF UsesCounted
    <2> QED
      BY <2>1, <2>2, <2>3 DEF Backed, KnownUser
  <1> QED
    BY <1>1, AuthInvariant, PTL

\* In one window a bucket lets no more through than its limit (_consume_rate_limit_tx,
\* _check_rate_limit_tx).
THEOREM LimitsHold == Spec => []LimitHolds
  <1>1. AuthInv => LimitHolds
    BY BucketFields DEF AuthInv, LimitHolds, Within
  <1> QED
    BY <1>1, AuthInvariant, PTL

=============================================================================
