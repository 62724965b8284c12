---------------------------- MODULE LoginsProofs ----------------------------
(***************************************************************************)
(* The map of admin sessions stays within its limit, up to the logins that *)
(* are in create_admin_session together, for any number of logins, threads *)
(* and sessions.  The bound alone is not inductive: what counts is what    *)
(* the map will hold once the pending logins have evicted and inserted.    *)
(***************************************************************************)
EXTENDS Logins, FiniteSetTheorems, TLAPS

\* Logins that are past the count of make_room and have not inserted yet.
Pending == {r \in Logins : login[r].stage \in {"pick", "evict", "insert"}}

\* The sessions that logins of A have picked and not removed yet.
Doomed(A) == UNION {login[r].victims : r \in A}

Most == MaxSessions + Threads - 1

\* When the logins of A evict what they have picked and insert, the map keeps to its
\* bound; or one of them is still to pick as many as it takes.
Fits(A) ==
    \/ Cardinality(DOMAIN sessions \ Doomed(A)) + Cardinality(A) <= Most
    \/ \E r \in A :
          /\ At(r, "pick")
          /\ Cardinality(DOMAIN sessions) + Cardinality(A) <= Most + login[r].excess

LoginTypeOK ==
    /\ login \in [Logins -> Login]
    /\ DOMAIN sessions \subseteq Logins

LoginInv ==
    /\ LoginTypeOK
    /\ Cardinality(Creating) <= Threads
    /\ \A r \in Logins : login[r].victims # {} => At(r, "evict")
    /\ \A A \in SUBSET Pending : Fits(A)

-----------------------------------------------------------------------------
LEMMA LoginsFinite ==
    ASSUME NEW S \in SUBSET Logins
    PROVE  IsFiniteSet(S) /\ Cardinality(S) \in Nat
<1>1. IsFiniteSet(Logins)
  BY LimitsAssumption, FS_Interval DEF Logins
<1> QED
  BY <1>1, FS_Subset, FS_CardinalityType

\* A part of a set of logins has no more members.
LEMMA FewerLogins ==
    ASSUME NEW S \in SUBSET Logins, NEW T \in SUBSET S
    PROVE  Cardinality(T) <= Cardinality(S) /\ Cardinality(T) \in Nat /\ Cardinality(S) \in Nat
BY LoginsFinite, FS_Subset

\* Pending logins are in create_admin_session: there are no more than threads.
LEMMA PendingBound ==
    ASSUME NEW C \in SUBSET Logins, Cardinality(C) <= Threads, NEW A \in SUBSET C
    PROVE  Cardinality(A) <= Threads /\ Cardinality(A) \in Nat
BY FewerLogins, LimitsAssumption

\* A step that adds no session and leaves the pending logins as they are keeps Fits.
LEMMA FitsKept ==
    ASSUME LoginTypeOK, LoginTypeOK', NEW A \in SUBSET Pending, Fits(A),
           DOMAIN sessions' \subseteq DOMAIN sessions,
           \A r \in A : login'[r] = login[r]
    PROVE  Fits(A)'
<1>1. Doomed(A)' = Doomed(A)
  BY DEF Doomed
<1>2. /\ Cardinality(DOMAIN sessions') <= Cardinality(DOMAIN sessions)
      /\ Cardinality(DOMAIN sessions') \in Nat /\ Cardinality(DOMAIN sessions) \in Nat
  BY FewerLogins DEF LoginTypeOK
<1>3. /\ Cardinality(DOMAIN sessions' \ Doomed(A)) <= Cardinality(DOMAIN sessions \ Doomed(A))
      /\ Cardinality(DOMAIN sessions' \ Doomed(A)) \in Nat
      /\ Cardinality(DOMAIN sessions \ Doomed(A)) \in Nat
  BY FewerLogins DEF LoginTypeOK
<1>4. Cardinality(A) \in Nat /\ A \in SUBSET Logins
  BY LoginsFinite DEF Pending
<1>5. \A r \in A : login[r].excess \in Nat
  BY <1>4 DEF LoginTypeOK, Login
<1>6. CASE Cardinality(DOMAIN sessions \ Doomed(A)) + Cardinality(A) <= Most
  <2>1. Cardinality(DOMAIN sessions' \ Doomed(A)) + Cardinality(A) <= Most
    BY <1>3, <1>4, <1>6, LimitsAssumption DEF Most
  <2> QED
    BY <2>1, <1>1 DEF Fits, Most
<1>7. CASE \E r \in A : /\ At(r, "pick")
                        /\ Cardinality(DOMAIN sessions) + Cardinality(A) <= Most + login[r].excess
  <2>1. PICK r \in A : /\ At(r, "pick")
                       /\ Cardinality(DOMAIN sessions) + Cardinality(A) <= Most + login[r].excess
    BY <1>7
  <2>2. Cardinality(DOMAIN sessions') + Cardinality(A) <= Most + login[r].excess
    BY <1>2, <1>4, <1>5, <2>1, LimitsAssumption DEF Most
  <2> QED
    BY <2>1, <2>2 DEF Fits, Most, At
<1> QED
  BY <1>6, <1>7 DEF Fits

\* The steps outside make_room: no session is added, nobody enters create_admin_session
\* or leaves its place in it, and victims and excess stay.
LEMMA QuietKeeps ==
    ASSUME LoginInv, LoginTypeOK',
           DOMAIN sessions' \subseteq DOMAIN sessions,
           Creating' \subseteq Creating,
           \A r \in Creating' : login'[r] = login[r],
           \A r \in Logins : login'[r].victims = login[r].victims,
           \A r \in Logins : At(r, "evict") => At(r, "evict")'
    PROVE  LoginInv'
<1>1. Cardinality(Creating') <= Threads
  <2>1. Creating \in SUBSET Logins
    BY DEF Creating
  <2>2. Cardinality(Creating') <= Cardinality(Creating) /\ Cardinality(Creating') \in Nat /\ Cardinality(Creating) \in Nat
    BY <2>1, FewerLogins
  <2> QED BY <2>2, LimitsAssumption DEF LoginInv
<1>2. \A r \in Logins : login'[r].victims # {} => At(r, "evict")'
  BY DEF LoginInv
<1>3. ASSUME NEW A \in SUBSET Pending'
      PROVE  Fits(A)'
  <2>1. A \in SUBSET Creating' /\ \A r \in A : login'[r] = login[r]
    BY DEF Pending, Creating
  <2>2. A \in SUBSET Pending
    BY <2>1 DEF Pending
  <2> QED BY <2>1, <2>2, FitsKept DEF LoginInv
<1> QED
  BY <1>1, <1>2, <1>3 DEF LoginInv

-----------------------------------------------------------------------------
\* Arrive, TooLong, Acquire, VerifyEnds, FloorOver and Gone: before create_admin_session.
LEMMA BeforeKeeps ==
    ASSUME LoginInv, NEW r \in Logins,
           login[r].stage \notin {"clean", "count", "pick", "evict", "insert"},
           NEW st \in Stages \ {"clean", "count", "pick", "evict", "insert"}, NEW v \in BOOLEAN,
           login' = [login EXCEPT ![r].stage = st, ![r].valid = v],
           sessions' = sessions
    PROVE  LoginInv'
<1>1. login \in [Logins -> Login]
  BY DEF LoginInv, LoginTypeOK
<1>2. login' = [login EXCEPT ![r] = login'[r]] /\ login'[r] = [login[r] EXCEPT !.stage = st, !.valid = v]
  BY <1>1
<1>3. login'[r] \in Login /\ login'[r].stage = st /\ login'[r].victims = login[r].victims
  BY <1>1, <1>2 DEF Login
<1>4. LoginTypeOK'
  BY <1>1, <1>2, <1>3 DEF LoginInv, LoginTypeOK
<1>5. \A q \in Logins \ {r} : login'[q] = login[q]
  BY <1>1, <1>2
<1>6. Creating' = Creating
  BY <1>3, <1>5 DEF Creating
<1>7. r \notin Creating
  BY DEF Creating
<1>8. Creating \subseteq Logins
  BY DEF Creating
<1>9. \A q \in Logins : At(q, "evict") => At(q, "evict")'
  BY <1>5 DEF At
<1> QED
  BY <1>3, <1>4, <1>5, <1>6, <1>7, <1>8, <1>9, QuietKeeps

\* Steps that leave the logins alone: an admin call, the maintenance tick, a second.
LEMMA SessionsOnlyKeeps ==
    ASSUME LoginInv, login' = login, DOMAIN sessions' \subseteq DOMAIN sessions
    PROVE  LoginInv'
<1>1. LoginTypeOK'
  BY DEF LoginInv, LoginTypeOK
<1>2. Creating' = Creating
  BY DEF Creating
<1>3. \A q \in Logins : At(q, "evict") => At(q, "evict")'
  BY DEF At
<1> QED
  BY <1>1, <1>2, <1>3, QuietKeeps

-----------------------------------------------------------------------------
\* What is common to the steps of create_admin_session: login r moves to a stage, its
\* victims are empty unless it is to evict.
LEMMA CreateKeeps ==
    ASSUME LoginInv, NEW r \in Logins, NEW l \in Login, l.victims # {} => l.stage = "evict",
           login' = [login EXCEPT ![r] = l],
           DOMAIN sessions' \subseteq Logins,
           Cardinality(Creating') <= Threads,
           \A A \in SUBSET Pending' : Fits(A)'
    PROVE  LoginInv'
<1>1. login \in [Logins -> Login]
  BY DEF LoginInv, LoginTypeOK
<1>2. LoginTypeOK'
  BY <1>1 DEF LoginTypeOK
<1>3. \A q \in Logins : login'[q].victims # {} => At(q, "evict")'
  BY <1>1 DEF At, LoginInv
<1> QED
  BY <1>2, <1>3 DEF LoginInv

\* A login that stays in create_admin_session, or leaves it, keeps the threads' bound.
LEMMA CreatingKept ==
    ASSUME LoginInv, NEW r \in Creating, NEW l, login' = [login EXCEPT ![r] = l]
    PROVE  Cardinality(Creating') <= Threads
<1>1. Creating \in SUBSET Logins /\ Creating' \in SUBSET Creating
  BY DEF Creating, LoginInv, LoginTypeOK
<1>2. /\ Cardinality(Creating') <= Cardinality(Creating)
      /\ Cardinality(Creating') \in Nat /\ Cardinality(Creating) \in Nat
  BY <1>1, FewerLogins
<1> QED
  BY <1>2, LimitsAssumption DEF LoginInv

\* Sets of pending logins without the one that moves.
LEMMA OthersFit ==
    ASSUME LoginInv, LoginTypeOK', NEW r \in Logins, NEW l, login' = [login EXCEPT ![r] = l],
           DOMAIN sessions' \subseteq DOMAIN sessions,
           NEW A \in SUBSET Pending', r \notin A
    PROVE  Fits(A)'
<1>1. A \in SUBSET Logins
  BY DEF Pending
<1>2. \A q \in A : login'[q] = login[q]
  BY <1>1 DEF LoginInv, LoginTypeOK
<1>3. A \in SUBSET Pending
  BY <1>1, <1>2 DEF Pending
<1> QED
  BY <1>2, <1>3, FitsKept DEF LoginInv

-----------------------------------------------------------------------------
LEMMA RoomKeeps ==
    ASSUME LoginInv, NEW r \in Logins, Room(r)
    PROVE  LoginInv'
<1> DEFINE st == IF Cardinality(DOMAIN sessions) < MaxSessions THEN "insert" ELSE "clean"
           l == [login[r] EXCEPT !.stage = st, !.valid = FALSE]
<1>1. login \in [Logins -> Login] /\ DOMAIN sessions \in SUBSET Logins
  BY DEF LoginInv, LoginTypeOK
<1>2. login' = [login EXCEPT ![r] = l] /\ sessions' = sessions
  BY <1>1 DEF Room, Goto
<1>3. login[r] \in Login /\ login[r].stage = "room" /\ login[r].victims = {}
  BY <1>1 DEF Room, At, LoginInv
<1>4. l \in Login /\ l.stage = st /\ l.victims = {}
  BY <1>3 DEF Login, Stages
<1> HIDE DEF l
<1>5. Cardinality(Creating') <= Threads
  <2>1. Creating' \subseteq Creating \cup {r} /\ Creating \in SUBSET Logins
    BY <1>1, <1>2 DEF Creating
  <2>2. r \notin Creating
    BY <1>3 DEF Creating
  <2>3. IsFiniteSet(Creating) /\ Cardinality(Creating) \in Nat
    BY <2>1, LoginsFinite
  <2>4. Cardinality(Creating \cup {r}) = Cardinality(Creating) + 1
    BY <2>2, <2>3, FS_AddElement
  <2>5. Creating \cup {r} \in SUBSET Logins
    BY <2>1
  <2>6. Cardinality(Creating') <= Cardinality(Creating \cup {r}) /\ Cardinality(Creating') \in Nat
    BY <2>1, <2>5, FewerLogins
  <2>7. Cardinality(Creating) < Threads
    BY DEF Room
  <2> QED
    BY <2>3, <2>4, <2>6, <2>7, LimitsAssumption
<1>6. LoginTypeOK'
  BY <1>1, <1>2, <1>4 DEF LoginTypeOK
<1>7. ASSUME NEW A \in SUBSET Pending'
      PROVE  Fits(A)'
  <2>1. CASE r \notin A
    BY <1>2, <1>6, <2>1, OthersFit
  <2>2. CASE r \in A
    <3>1. login'[r].stage = st
      BY <1>1, <1>2, <1>4
    <3>2. Cardinality(DOMAIN sessions) < MaxSessions
      BY <2>2, <3>1 DEF Pending
    <3>3. Cardinality(A) <= Threads /\ Cardinality(A) \in Nat
      <4>1. Creating' \in SUBSET Logins /\ A \in SUBSET Creating'
        BY DEF Pending, Creating
      <4> QED BY <1>5, <4>1, PendingBound
    <3>4. DOMAIN sessions \ Doomed(A)' \in SUBSET DOMAIN sessions
      OBVIOUS
    <3>5. /\ Cardinality(DOMAIN sessions \ Doomed(A)') <= Cardinality(DOMAIN sessions)
          /\ Cardinality(DOMAIN sessions \ Doomed(A)') \in Nat
          /\ Cardinality(DOMAIN sessions) \in Nat
      BY <1>1, <3>4, FewerLogins
    <3>6. Cardinality(DOMAIN sessions \ Doomed(A)') + Cardinality(A) <= Most
      BY <3>2, <3>3, <3>5, LimitsAssumption DEF Most
    <3> QED
      BY <3>6, <1>2 DEF Fits, Most
  <2> QED
    BY <2>1, <2>2
<1> QED
  BY <1>1, <1>2, <1>4, <1>5, <1>7, CreateKeeps

LEMMA CleanKeeps ==
    ASSUME LoginInv, NEW r \in Logins, Clean(r)
    PROVE  LoginInv'
<1> DEFINE l == [login[r] EXCEPT !.stage = "count", !.valid = FALSE]
<1>1. login \in [Logins -> Login] /\ DOMAIN sessions \in SUBSET Logins
  BY DEF LoginInv, LoginTypeOK
<1>2. login' = [login EXCEPT ![r] = l] /\ DOMAIN sessions' \subseteq DOMAIN sessions
  BY <1>1 DEF Clean, Goto, Without
<1>3. login[r] \in Login /\ login[r].stage = "clean" /\ login[r].victims = {}
  BY <1>1 DEF Clean, At, LoginInv
<1>4. l \in Login /\ l.stage = "count" /\ l.victims = {}
  BY <1>3 DEF Login, Stages
<1> HIDE DEF l
<1>5. r \in Creating
  BY <1>3 DEF Creating
<1>6. LoginTypeOK'
  BY <1>1, <1>2, <1>4 DEF LoginTypeOK
<1>7. ASSUME NEW A \in SUBSET Pending'
      PROVE  Fits(A)'
  <2>1. login'[r].stage = "count"
    BY <1>1, <1>2, <1>4
  <2>2. r \notin A
    BY <2>1 DEF Pending
  <2> QED
    BY <1>2, <1>6, <2>2, OthersFit
<1>8. DOMAIN sessions' \subseteq Logins
  BY <1>1, <1>2
<1> QED
  BY <1>2, <1>4, <1>5, <1>7, <1>8, CreateKeeps, CreatingKept

\* Whatever the others have picked, r will pick enough to come down to the limit.
LEMMA CountKeeps ==
    ASSUME LoginInv, NEW r \in Logins, Count(r)
    PROVE  LoginInv'
<1> DEFINE n == Cardinality(DOMAIN sessions) + 1
           e == IF n > MaxSessions THEN n - MaxSessions ELSE 0
           l == [login[r] EXCEPT !.stage = "pick", !.excess = e]
<1>1. login \in [Logins -> Login] /\ DOMAIN sessions \in SUBSET Logins
  BY DEF LoginInv, LoginTypeOK
<1>2. login' = [login EXCEPT ![r] = l] /\ sessions' = sessions
  BY <1>1 DEF Count
<1>3. login[r] \in Login /\ login[r].stage = "count" /\ login[r].victims = {}
  BY <1>1 DEF Count, At, LoginInv
<1>4. Cardinality(DOMAIN sessions) \in Nat
  BY <1>1, LoginsFinite
<1>5. e \in Nat /\ Cardinality(DOMAIN sessions) + 1 <= MaxSessions + e
  BY <1>4, LimitsAssumption
<1> HIDE DEF e
<1>6. l \in Login /\ l.stage = "pick" /\ l.victims = {} /\ l.excess = e
  BY <1>3, <1>5 DEF Login, Stages
<1> HIDE DEF l
<1>7. r \in Creating
  BY <1>3 DEF Creating
<1>8. Cardinality(Creating') <= Threads
  BY <1>2, <1>7, CreatingKept
<1>9. LoginTypeOK'
  BY <1>1, <1>2, <1>6 DEF LoginTypeOK
<1>10. ASSUME NEW A \in SUBSET Pending'
       PROVE  Fits(A)'
  <2>1. CASE r \notin A
    BY <1>2, <1>9, <2>1, OthersFit
  <2>2. CASE r \in A
    <3>1. login'[r] = l
      BY <1>1, <1>2
    <3>2. Cardinality(A) <= Threads /\ Cardinality(A) \in Nat
      <4>1. Creating' \in SUBSET Logins /\ A \in SUBSET Creating'
        BY DEF Pending, Creating
      <4> QED BY <1>8, <4>1, PendingBound
    <3>3. Cardinality(DOMAIN sessions) + Cardinality(A) <= Most + e
      BY <1>4, <1>5, <3>2, LimitsAssumption DEF Most
    <3> QED
      BY <1>2, <1>6, <2>2, <3>1, <3>3 DEF Fits, Most, At
  <2> QED
    BY <2>1, <2>2
<1> QED
  BY <1>1, <1>2, <1>6, <1>8, <1>10, CreateKeeps

\* The sessions r has picked are gone for every set of logins that r belongs to.
LEMMA PickKeeps ==
    ASSUME LoginInv, NEW r \in Logins, Pick(r)
    PROVE  LoginInv'
<1>1. login \in [Logins -> Login] /\ DOMAIN sessions \in SUBSET Logins
  BY DEF LoginInv, LoginTypeOK
<1>2. PICK V \in SUBSET DOMAIN sessions :
        /\ Cardinality(V) = IF login[r].excess < Cardinality(DOMAIN sessions)
                            THEN login[r].excess ELSE Cardinality(DOMAIN sessions)
        /\ login' = [login EXCEPT ![r].stage = "evict", ![r].victims = V]
  BY DEF Pick
<1>3. sessions' = sessions
  BY DEF Pick
<1> DEFINE l == [login[r] EXCEPT !.stage = "evict", !.victims = V]
<1>4. login' = [login EXCEPT ![r] = l]
  BY <1>1, <1>2
<1>5. login[r] \in Login /\ login[r].stage = "pick" /\ login[r].victims = {} /\ login[r].excess \in Nat
  BY <1>1 DEF Pick, At, LoginInv, Login
<1>6. l \in Login /\ l.stage = "evict" /\ l.victims = V
  BY <1>1, <1>5 DEF Login, Stages
<1> HIDE DEF l
<1>7. r \in Creating
  BY <1>5 DEF Creating
<1>8. Cardinality(Creating') <= Threads
  BY <1>4, <1>7, CreatingKept
<1>9. LoginTypeOK'
  BY <1>1, <1>3, <1>4, <1>6 DEF LoginTypeOK
<1>10. ASSUME NEW A \in SUBSET Pending'
       PROVE  Fits(A)'
  <2>1. CASE r \notin A
    BY <1>3, <1>4, <1>9, <2>1, OthersFit
  <2>2. CASE r \in A
    <3> DEFINE S == DOMAIN sessions
               D == Doomed(A)'
    <3>1. login'[r] = l /\ A \in SUBSET Logins /\ \A q \in A \ {r} : login'[q] = login[q]
      BY <1>1, <1>4 DEF Pending
    <3>2. A \in SUBSET Pending
      BY <1>5, <3>1 DEF Pending
    <3>3. Cardinality(A) <= Threads /\ Cardinality(A) \in Nat
      <4>1. Creating' \in SUBSET Logins /\ A \in SUBSET Creating'
        BY DEF Pending, Creating
      <4> QED BY <1>8, <4>1, PendingBound
    <3>4. D = Doomed(A) \cup V
      BY <1>5, <1>6, <2>2, <3>1 DEF Doomed
    <3>5. IsFiniteSet(S) /\ Cardinality(S) \in Nat /\ Cardinality(V) \in Nat
      BY <1>1, LoginsFinite
    <3>6. Cardinality(S \ V) = Cardinality(S) - Cardinality(V)
      <4>1. S \cap V = V
        OBVIOUS
      <4> QED BY <4>1, <3>5, FS_Difference
    <3>7. /\ Cardinality(S \ D) <= Cardinality(S \ V)
          /\ Cardinality(S \ D) \in Nat /\ Cardinality(S \ V) \in Nat
      <4>1. S \ V \in SUBSET Logins /\ S \ D \in SUBSET (S \ V)
        BY <1>1, <3>4
      <4> QED BY <4>1, FewerLogins
    <3>8. /\ Cardinality(S \ D) <= Cardinality(S \ Doomed(A))
          /\ Cardinality(S \ Doomed(A)) \in Nat
      <4>1. S \ Doomed(A) \in SUBSET Logins /\ S \ D \in SUBSET (S \ Doomed(A))
        BY <1>1, <3>4
      <4> QED BY <4>1, FewerLogins
    <3>9. Fits(A)
      BY <3>2 DEF LoginInv
    <3> HIDE DEF S, D
    <3>10. CASE Cardinality(S \ Doomed(A)) + Cardinality(A) <= Most
      <4>1. Cardinality(S \ D) + Cardinality(A) <= Most
        BY <3>3, <3>7, <3>8, <3>10, LimitsAssumption DEF Most
      <4> QED BY <1>3, <4>1 DEF Fits, S, D, Most
    <3>11. CASE \E q \in A : At(q, "pick") /\ Cardinality(S) + Cardinality(A) <= Most + login[q].excess
      <4>1. PICK q \in A : At(q, "pick") /\ Cardinality(S) + Cardinality(A) <= Most + login[q].excess
        BY <3>11
      <4>2. CASE q = r
        <5>1. Cardinality(V) = IF login[r].excess < Cardinality(S) THEN login[r].excess ELSE Cardinality(S)
          BY <1>2 DEF S
        <5>2. Cardinality(S \ D) + Cardinality(A) <= Most
          BY <1>5, <3>3, <3>5, <3>6, <3>7, <4>1, <4>2, <5>1, LimitsAssumption DEF Most
        <5> QED BY <1>3, <5>2 DEF Fits, S, D, Most
      <4>3. CASE q # r
        <5>1. login'[q] = login[q]
          BY <3>1, <4>3
        <5> QED BY <1>3, <4>1, <5>1 DEF Fits, S, Most, At
      <4> QED BY <4>2, <4>3
    <3> QED
      BY <3>9, <3>10, <3>11 DEF Fits, S
  <2> QED
    BY <2>1, <2>2
<1> QED
  BY <1>1, <1>3, <1>4, <1>6, <1>8, <1>10, CreateKeeps

\* What r removes was doomed already.
LEMMA EvictKeeps ==
    ASSUME LoginInv, NEW r \in Logins, Evict(r)
    PROVE  LoginInv'
<1> DEFINE V == login[r].victims
           l == [login[r] EXCEPT !.stage = "insert", !.victims = {}, !.excess = 0]
<1>1. login \in [Logins -> Login] /\ DOMAIN sessions \in SUBSET Logins
  BY DEF LoginInv, LoginTypeOK
<1>2. login' = [login EXCEPT ![r] = l] /\ DOMAIN sessions' = DOMAIN sessions \ V
  BY <1>1 DEF Evict, Without
<1>3. login[r] \in Login /\ login[r].stage = "evict"
  BY <1>1 DEF Evict, At
<1>4. l \in Login /\ l.stage = "insert" /\ l.victims = {}
  BY <1>3 DEF Login, Stages
<1> HIDE DEF l
<1>5. r \in Creating
  BY <1>3 DEF Creating
<1>6. LoginTypeOK'
  BY <1>1, <1>2, <1>4 DEF LoginTypeOK
<1>7. ASSUME NEW A \in SUBSET Pending'
      PROVE  Fits(A)'
  <2>1. CASE r \notin A
    BY <1>2, <1>6, <2>1, OthersFit
  <2>2. CASE r \in A
    <3>1. login'[r] = l /\ A \in SUBSET Logins /\ \A q \in A \ {r} : login'[q] = login[q]
      BY <1>1, <1>2 DEF Pending
    <3>2. A \in SUBSET Pending
      BY <1>3, <3>1 DEF Pending
    <3>3. DOMAIN sessions' \ Doomed(A)' = DOMAIN sessions \ Doomed(A)
      BY <1>2, <1>4, <2>2, <3>1 DEF Doomed
    <3>4. Fits(A)
      BY <3>2 DEF LoginInv
    <3>5. /\ Cardinality(DOMAIN sessions') <= Cardinality(DOMAIN sessions)
          /\ Cardinality(DOMAIN sessions') \in Nat /\ Cardinality(DOMAIN sessions) \in Nat
      BY <1>1, <1>2, FewerLogins
    <3>6. Cardinality(A) \in Nat
      BY <3>1, LoginsFinite
    <3>7. CASE \E q \in A : /\ At(q, "pick")
                            /\ Cardinality(DOMAIN sessions) + Cardinality(A) <= Most + login[q].excess
      <4>1. PICK q \in A : /\ At(q, "pick")
                           /\ Cardinality(DOMAIN sessions) + Cardinality(A) <= Most + login[q].excess
        BY <3>7
      <4>2. login'[q] = login[q] /\ login[q].excess \in Nat
        BY <1>1, <1>3, <3>1, <4>1 DEF At, Login
      <4>3. Cardinality(DOMAIN sessions') + Cardinality(A) <= Most + login[q].excess
        BY <3>5, <3>6, <4>1, <4>2, LimitsAssumption DEF Most
      <4> QED BY <4>1, <4>2, <4>3 DEF Fits, Most, At
    <3> QED
      BY <3>3, <3>4, <3>7 DEF Fits, Most
  <2> QED
    BY <2>1, <2>2
<1>8. DOMAIN sessions' \subseteq Logins
  BY <1>1, <1>2
<1> QED
  BY <1>2, <1>4, <1>5, <1>7, <1>8, CreateKeeps, CreatingKept

\* The new session takes the place that its login had in every set of pending logins.
LEMMA InsertKeeps ==
    ASSUME LoginInv, NEW r \in Logins, Insert(r)
    PROVE  LoginInv'
<1> DEFINE S == DOMAIN sessions
           l == [login[r] EXCEPT !.stage = "in", !.valid = FALSE]
<1>1. login \in [Logins -> Login] /\ S \in SUBSET Logins
  BY DEF LoginInv, LoginTypeOK
<1>2. login' = [login EXCEPT ![r] = l] /\ DOMAIN sessions' = S \cup {r}
  BY <1>1 DEF Insert, Goto
<1>3. login[r] \in Login /\ login[r].stage = "insert" /\ login[r].victims = {}
  BY <1>1 DEF Insert, At, LoginInv
<1>4. l \in Login /\ l.stage = "in" /\ l.victims = {}
  BY <1>3 DEF Login, Stages
<1> HIDE DEF l
<1>5. r \in Creating
  BY <1>3 DEF Creating
<1>6. DOMAIN sessions' \in SUBSET Logins
  BY <1>1, <1>2
<1>7. ASSUME NEW A \in SUBSET Pending'
      PROVE  Fits(A)'
  <2> DEFINE B == A \cup {r}
  <2>1. r \notin A /\ A \in SUBSET Logins /\ \A q \in A : login'[q] = login[q]
    BY <1>1, <1>2, <1>4 DEF Pending
  <2>2. B \in SUBSET Pending
    BY <1>3, <2>1 DEF Pending
  <2>3. Doomed(A)' = Doomed(B)
    BY <1>3, <2>1 DEF Doomed
  <2>4. Cardinality(A) \in Nat /\ Cardinality(B) = Cardinality(A) + 1
    BY <2>1, LoginsFinite, FS_AddElement
  <2>5. /\ Cardinality(DOMAIN sessions') <= Cardinality(S) + 1
        /\ Cardinality(DOMAIN sessions') \in Nat /\ Cardinality(S) \in Nat
    BY <1>1, <1>2, <1>6, LoginsFinite, FS_AddElement
  <2>6. /\ Cardinality(DOMAIN sessions' \ Doomed(A)') <= Cardinality(S \ Doomed(B)) + 1
        /\ Cardinality(DOMAIN sessions' \ Doomed(A)') \in Nat
        /\ Cardinality(S \ Doomed(B)) \in Nat
    <3>1. S \ Doomed(B) \in SUBSET Logins /\ (S \ Doomed(B)) \cup {r} \in SUBSET Logins
      BY <1>1
    <3>2. DOMAIN sessions' \ Doomed(A)' \in SUBSET ((S \ Doomed(B)) \cup {r})
      BY <1>2, <2>3
    <3>3. /\ Cardinality((S \ Doomed(B)) \cup {r}) <= Cardinality(S \ Doomed(B)) + 1
          /\ Cardinality(S \ Doomed(B)) \in Nat
      <4> DEFINE T == S \ Doomed(B)
      <4>1. IsFiniteSet(T) /\ Cardinality(T) \in Nat
        BY <3>1, LoginsFinite
      <4> HIDE DEF T
      <4>2. Cardinality(T \cup {r}) = IF r \in T THEN Cardinality(T) ELSE Cardinality(T) + 1
        BY <4>1, FS_AddElement
      <4>3. Cardinality(T \cup {r}) <= Cardinality(T) + 1 /\ Cardinality(T) \in Nat
        BY <4>1, <4>2
      <4> QED BY <4>3 DEF T
    <3>4. /\ Cardinality(DOMAIN sessions' \ Doomed(A)') <= Cardinality((S \ Doomed(B)) \cup {r})
          /\ Cardinality(DOMAIN sessions' \ Doomed(A)') \in Nat
          /\ Cardinality((S \ Doomed(B)) \cup {r}) \in Nat
      BY <3>1, <3>2, FewerLogins
    <3> QED BY <3>3, <3>4
  <2>7. Fits(B)
    BY <2>2 DEF LoginInv
  <2> HIDE DEF B
  <2>8. CASE Cardinality(S \ Doomed(B)) + Cardinality(B) <= Most
    <3>1. Cardinality(DOMAIN sessions' \ Doomed(A)') + Cardinality(A) <= Most
      BY <2>4, <2>6, <2>8, LimitsAssumption DEF Most
    <3> QED BY <3>1 DEF Fits, Most
  <2>9. CASE \E q \in B : At(q, "pick") /\ Cardinality(S) + Cardinality(B) <= Most + login[q].excess
    <3>1. PICK q \in B : At(q, "pick") /\ Cardinality(S) + Cardinality(B) <= Most + login[q].excess
      BY <2>9
    <3>2. q \in A /\ login'[q] = login[q] /\ login[q].excess \in Nat
      BY <1>1, <1>3, <2>1, <3>1 DEF At, Login, B
    <3>3. Cardinality(DOMAIN sessions') + Cardinality(A) <= Most + login[q].excess
      BY <2>4, <2>5, <3>1, <3>2, LimitsAssumption DEF Most
    <3> QED BY <3>1, <3>2, <3>3 DEF Fits, Most, At
  <2> QED
    BY <2>7, <2>8, <2>9 DEF Fits
<1> QED
  BY <1>2, <1>4, <1>5, <1>6, <1>7, CreateKeeps, CreatingKept

-----------------------------------------------------------------------------
LEMMA LoginInitInv == Init => LoginInv
<1> SUFFICES ASSUME Init PROVE LoginInv
  OBVIOUS
<1>1. \A r \in Logins : login[r] = [stage |-> "new", valid |-> FALSE, excess |-> 0, victims |-> {}]
  BY DEF Init
<1>2. LoginTypeOK
  <2>1. [stage |-> "new", valid |-> FALSE, excess |-> 0, victims |-> {}] \in Login
    BY DEF Login, Stages
  <2>2. DOMAIN sessions = {}
    BY DEF Init
  <2> QED BY <2>1, <2>2 DEF Init, LoginTypeOK
<1>3. Creating = {} /\ Pending = {}
  BY <1>1 DEF Creating, Pending
<1>4. Fits({})
  <2>1. DOMAIN sessions \ Doomed({}) = {}
    BY DEF Init
  <2> QED BY <2>1, FS_EmptySet, LimitsAssumption DEF Fits, Most
<1>5. \A r \in Logins : login[r].victims = {}
  BY <1>1
<1>6. Cardinality(Creating) <= Threads
  BY <1>3, FS_EmptySet, LimitsAssumption
<1>7. \A A \in SUBSET Pending : Fits(A)
  <2>1. \A A \in SUBSET Pending : A = {}
    BY <1>3
  <2> QED BY <2>1, <1>4
<1> QED
  BY <1>2, <1>5, <1>6, <1>7 DEF LoginInv

LEMMA LoginNextInv == LoginInv /\ [Next]_vars => LoginInv'
<1> SUFFICES ASSUME LoginInv, [Next]_vars PROVE LoginInv'
  OBVIOUS
<1>1. ASSUME NEW r \in Logins, Arrive(r) \/ TooLong(r) \/ Gone(r) \/ Acquire(r) \/ VerifyEnds(r) \/ FloorOver(r)
      PROVE  LoginInv'
  <2>1. CASE VerifyEnds(r) /\ ~At(r, "verify")
    <3>1. login' = login /\ sessions' = sessions
      BY <2>1 DEF VerifyEnds
    <3> QED BY <3>1, SessionsOnlyKeeps
  <2>2. CASE ~(VerifyEnds(r) /\ ~At(r, "verify"))
    <3>1. login[r].stage \in {"new", "queued", "verify", "floor"}
      BY <1>1, <2>2 DEF Arrive, TooLong, Gone, Acquire, VerifyEnds, FloorOver, NextToCome,
                        FirstInLine, At
    <3>2. PICK st \in {"queued", "verify", "floor", "room", "refused", "gone"}, v \in BOOLEAN :
            login' = [login EXCEPT ![r].stage = st, ![r].valid = v]
      BY <1>1, <2>2, ZenonT(60) DEF Arrive, TooLong, Gone, Acquire, VerifyEnds, FloorOver, Goto
    <3>3. sessions' = sessions
      BY <1>1 DEF Arrive, TooLong, Gone, Acquire, VerifyEnds, FloorOver
    <3>4. st \in Stages \ {"clean", "count", "pick", "evict", "insert"}
      BY DEF Stages
    <3> QED BY <3>1, <3>2, <3>3, <3>4, BeforeKeeps
  <2> QED BY <2>1, <2>2
<1>2. ASSUME NEW r \in Logins, Create(r)
      PROVE  LoginInv'
  BY <1>2, RoomKeeps, CleanKeeps, CountKeeps, PickKeeps, EvictKeeps, InsertKeeps DEF Create
<1>3. ASSUME (\E s \in Logins : Use(s)) \/ Maintenance \/ Tick \/ UNCHANGED vars
      PROVE  LoginInv'
  <2>1. login' = login
    BY <1>3 DEF Use, Maintenance, Tick, vars
  <2>2. DOMAIN sessions' \subseteq DOMAIN sessions
    BY <1>3 DEF Use, Maintenance, Tick, vars, Without
  <2> QED BY <2>1, <2>2, SessionsOnlyKeeps
<1> QED
  BY <1>1, <1>2, <1>3 DEF Next, Handle

\* auth.rs: MAX_ADMIN_SESSIONS bounds the map of admin sessions up to the logins that
\* are in create_admin_session together, for every number of logins and threads.
THEOREM SessionsAreBounded == Spec => []SessionsBounded
<1>1. LoginInv => SessionsBounded
  <2> SUFFICES ASSUME LoginInv PROVE SessionsBounded
    OBVIOUS
  <2>1. Fits({})
    BY DEF LoginInv
  <2>2. DOMAIN sessions \ Doomed({}) = DOMAIN sessions
    BY DEF Doomed
  <2>3. Cardinality(DOMAIN sessions) \in Nat
    BY LoginsFinite DEF LoginInv, LoginTypeOK
  <2> QED BY <2>1, <2>2, <2>3, FS_EmptySet DEF Fits, SessionsBounded, Most
<1> QED
  BY <1>1, LoginInitInv, LoginNextInv, PTL DEF Spec

=============================================================================
