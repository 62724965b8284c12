----------------------- MODULE ConnectorSessionsProofs -----------------------
(***************************************************************************)
(* The two ends of a connector's sessions, which share no state here.      *)
(*                                                                         *)
(* ConnectorSessions: the registry and the permits of the server, for any  *)
(* set of connectors, any finite set of sessions and any number of permits.*)
(*                                                                         *)
(* Reconnect: the loop of the connector does not redial hot, for any       *)
(* timeouts and any endings of its attempts and sessions.  NeverHot counts *)
(* polls and says nothing of how they are held back; HotInv adds that each *)
(* quick poll has cost an attempt, that the wait under way still separates *)
(* two polls, and that a session which held has held since the last poll.  *)
(***************************************************************************)
EXTENDS ConnectorSessions, Reconnect, FiniteSetTheorems, WellFoundedInduction, TLAPS

\* A session that is not registered yet cannot be shut down.  One that replaces another
\* knows it, and watches for its own shutdown from the moment the registry can reach it.
Early == {"new", "authenticated", "admitted"}
SetUp ==
    \A s \in Sessions :
        /\ sess[s].stage \in Early => sess[s].kicked = FALSE
        /\ sess[s].stage = "replacing" =>
             /\ sess[s].replaces \in Sessions \ {s}
             /\ sess[sess[s].replaces].stage \notin Early
        /\ Attached(s) => sess[s].armed

\* The inductive invariant.  TypeOK needs PermitsConserved (Leave gives a permit back),
\* NoneForgotten needs NoGhost (the entry that Register replaces is attached) and SetUp.
Registered == NoGhost /\ NoneForgotten /\ SetUp /\ KickIsSeen
IInv == TypeOK /\ PermitsConserved /\ Registered

-----------------------------------------------------------------------------
(* Where a step leaves a session.                                          *)

\* What a change of one field of one session keeps of the others.
LEMMA StageChange ==
    ASSUME TypeOK, NEW s \in Sessions, NEW g \in Stages, Goto(s, g)
    PROVE  /\ sess' \in [Sessions -> Session]
           /\ sess'[s].stage = g
           /\ sess'[s].transport = sess[s].transport
           /\ sess'[s].connector = sess[s].connector
           /\ sess'[s].armed = sess[s].armed
           /\ sess'[s].kicked = sess[s].kicked
           /\ sess'[s].woken = sess[s].woken
           /\ sess'[s].replaces = sess[s].replaces
           /\ \A x \in Sessions \ {s} : sess'[x] = sess[x]
BY DEF TypeOK, Goto, Session

\* shutdown() touches two fields of one session.
LEMMA ShutdownChange ==
    ASSUME TypeOK, NEW p \in Sessions
    PROVE  /\ Shutdown(sess, p) \in [Sessions -> Session]
           /\ Shutdown(sess, p)[p] = [sess[p] EXCEPT !.kicked = TRUE, !.woken = sess[p].armed]
           /\ \A x \in Sessions \ {p} : Shutdown(sess, p)[x] = sess[x]
BY ZenonT(60) DEF TypeOK, Shutdown, Session

\* The holders of permits are finitely many.
LEMMA HoldersFinite ==
    \A t \in Transports : IsFiniteSet(Holders(t)) /\ Cardinality(Holders(t)) \in Nat
<1> TAKE t \in Transports
<1>1. Holders(t) \subseteq Sessions  BY DEF Holders
<1>2. IsFiniteSet(Holders(t))  BY <1>1, SessionsAssumption, FS_Subset
<1> QED  BY <1>2, FS_CardinalityType

-----------------------------------------------------------------------------
LEMMA InitIInv == Init => IInv
<1> SUFFICES ASSUME Init PROVE IInv  OBVIOUS
<1>1. \A s \in Sessions : /\ sess[s].stage = "new" /\ sess[s] \in Session
                          /\ sess[s].kicked = FALSE
  <2>1. \A s \in Sessions :
          sess[s] \in [stage : {"new"}, transport : Transports, connector : Connectors,
                       token : {0}, armed : {FALSE}, kicked : {FALSE}, woken : {FALSE},
                       replaces : {NoSession}]
    BY Zenon DEF Init
  <2>2. {FALSE} \subseteq BOOLEAN /\ {0} \subseteq 0..MaxTokens /\ {"new"} \subseteq Stages
    BY PermitsAssumption DEF Stages
  <2> QED  BY <2>1, <2>2, Zenon DEF Session
<1>2. sess \in [Sessions -> Session]  BY <1>1 DEF Init
<1>3. TypeOK  BY <1>2, PermitsAssumption DEF Init, TypeOK
<1>4. \A t \in Transports : Holders(t) = {}  BY <1>1 DEF Holders
<1>5. PermitsConserved
  BY <1>4, FS_EmptySet, PermitsAssumption, SMTT(60) DEF Init, PermitsConserved
<1>6. Registered
  BY <1>1 DEF Init, Registered, NoGhost, NoneForgotten, SetUp, KickIsSeen, Attached, Early
<1> QED  BY <1>3, <1>5, <1>6 DEF IInv

\* Every step keeps the types; a permit given back fits, as its session held it.
LEMMA NextTypeOK == TypeOK /\ PermitsConserved /\ Registered /\ Next => TypeOK'
<1> SUFFICES ASSUME TypeOK, PermitsConserved, Registered, Next PROVE TypeOK'  OBVIOUS
<1> USE PermitsAssumption
<1>1. ASSUME NEW s \in Sessions,
             Authenticate(s) \/ Reject(s) \/ TurnAway(s) \/ UpgradeFails(s)
             \/ SeeShutdown(s) \/ LinkLost(s)
      PROVE  TypeOK'
  <2>1. CASE Authenticate(s)
    <3> DEFINE r == [sess[s] EXCEPT !.stage = "authenticated",
                                    !.token = token[sess[s].connector]]
    <3>1. r \in Session  BY ZenonT(60) DEF TypeOK, Session, Stages
    <3>2. sess' = [sess EXCEPT ![s] = r]  BY <2>1, SMTT(60) DEF Authenticate
    <3> HIDE DEF r
    <3> QED  BY <2>1, <3>1, <3>2 DEF Authenticate, TypeOK
  <2>2. CASE Reject(s) \/ TurnAway(s) \/ UpgradeFails(s) \/ SeeShutdown(s) \/ LinkLost(s)
    BY <2>2, StageChange, ZenonT(60)
    DEF Reject, TurnAway, UpgradeFails, SeeShutdown, LinkLost, TypeOK, Stages
  <2> QED  BY <1>1, <2>1, <2>2
<1>2. ASSUME NEW s \in Sessions, Admit(s) PROVE TypeOK'
  <2>1. sess' \in [Sessions -> Session]  BY <1>2, StageChange DEF Admit, Stages
  <2>2. permits' \in [Transports -> 0..Permits]
    <3>1. sess[s].transport \in Transports  BY DEF TypeOK, Session
    <3> QED  BY <1>2, <3>1 DEF Admit, TypeOK
  <2> QED  BY <1>2, <2>1, <2>2 DEF Admit, TypeOK
<1>3. ASSUME NEW s \in Sessions, Register(s) PROVE TypeOK'
  <2> DEFINE c == sess[s].connector
             g == IF registry[c] = NoSession THEN "running" ELSE "replacing"
             q == registry[c]
             r == [sess[s] EXCEPT !.stage = g, !.armed = TRUE, !.replaces = q]
  <2>1. c \in Connectors  BY DEF TypeOK, Session
  <2>2. sess' = [sess EXCEPT ![s] = r]  BY <1>3 DEF Register
  <2>3. registry' = [registry EXCEPT ![c] = s]  BY <1>3 DEF Register
  <2>4. g \in Stages  BY DEF Stages
  <2>5. q \in Sessions \cup {NoSession}  BY <2>1 DEF TypeOK
  <2>6. sess[s] \in Session  BY DEF TypeOK
  <2> HIDE DEF c, g, q
  <2>7. r \in Session  BY <2>4, <2>5, <2>6, Zenon DEF Session
  <2> HIDE DEF r
  <2>8. sess' \in [Sessions -> Session]  BY <2>2, <2>7 DEF TypeOK
  <2>9. registry' \in [Connectors -> Sessions \cup {NoSession}]  BY <2>3, ZenonT(60) DEF TypeOK
  <2> QED  BY <1>3, <2>8, <2>9 DEF Register, TypeOK
<1>4. ASSUME NEW s \in Sessions, ShutdownPrevious(s) PROVE TypeOK'
  <2>1. sess[s].replaces \in Sessions  BY <1>4 DEF Registered, SetUp, ShutdownPrevious
  <2>2. Shutdown(sess, sess[s].replaces) \in [Sessions -> Session]
    BY <2>1, ShutdownChange, ZenonT(60)
  <2>3. sess' \in [Sessions -> Session]
    <3> DEFINE f == Shutdown(sess, sess[s].replaces)
               r == [f[s] EXCEPT !.stage = "running", !.replaces = NoSession]
    <3>1. sess' = [f EXCEPT ![s] = r]  BY <1>4 DEF ShutdownPrevious
    <3>2. f \in [Sessions -> Session]  BY <2>2
    <3> HIDE DEF f
    <3>3. r \in Session  BY <3>2, ZenonT(60) DEF Session, Stages
    <3> HIDE DEF r
    <3> QED  BY <3>1, <3>2, <3>3
  <2> QED  BY <1>4, <2>3 DEF ShutdownPrevious, TypeOK
<1>5. ASSUME NEW s \in Sessions, UnregisterManager(s) PROVE TypeOK'
  <2>1. sess' \in [Sessions -> Session]
    <3>1. CASE Goto(s, "leaving")  BY <3>1, StageChange DEF Stages
    <3>2. CASE sess' = [Shutdown(sess, s) EXCEPT ![s].stage = "leaving"]
      <4> DEFINE f == Shutdown(sess, s)
                 r == [f[s] EXCEPT !.stage = "leaving"]
      <4>1. f \in [Sessions -> Session]  BY ShutdownChange, Zenon
      <4>2. sess' = [f EXCEPT ![s] = r]  BY <3>2
      <4> HIDE DEF f
      <4>3. r \in Session  BY <4>1 DEF Session, Stages
      <4> HIDE DEF r
      <4> QED  BY <4>1, <4>2, <4>3, SMTT(60)
    <3> QED  BY <1>5, <3>1, <3>2 DEF UnregisterManager
  <2> QED  BY <1>5, <2>1 DEF UnregisterManager, TypeOK
<1>6. ASSUME NEW s \in Sessions, Leave(s) PROVE TypeOK'
  <2>1. sess' \in [Sessions -> Session]  BY <1>6, StageChange DEF Leave, Stages
  <2>2. permits' \in [Transports -> 0..Permits]
    <3> DEFINE t == sess[s].transport
    <3>1. t \in Transports  BY DEF TypeOK, Session
    <3>2. s \in Holders(t)  BY <1>6 DEF Leave, Holders
    <3>3. Cardinality(Holders(t)) \in Nat /\ Cardinality(Holders(t)) # 0
      BY <3>1, <3>2, HoldersFinite, FS_EmptySet
    <3>4. permits[t] + Cardinality(Holders(t)) = Permits
      BY <3>1 DEF PermitsConserved
    <3>5. permits[t] \in Nat  BY <3>1 DEF TypeOK
    <3>6. permits[t] + 1 \in 0..Permits  BY <3>3, <3>4, <3>5
    <3> QED  BY <1>6, <3>1, <3>6 DEF Leave, TypeOK
  <2> QED  BY <1>6, <2>1, <2>2 DEF Leave, TypeOK
<1>7. ASSUME NEW c \in Connectors, RotateToken(c) PROVE TypeOK'
  BY <1>7 DEF RotateToken, TypeOK
<1>8. ASSUME NEW c \in Connectors, EndRotation(c) \/ DeleteConnector(c) \/ Kick(c)
      PROVE  TypeOK'
  <2>1. sess' \in [Sessions -> Session]
    <3>1. Unregister(c)  BY <1>8 DEF EndRotation, DeleteConnector, Kick
    <3>2. registry[c] \in Sessions \cup {NoSession}  BY SMTT(60) DEF TypeOK
    <3>3. registry[c] \in Sessions => Shutdown(sess, registry[c]) \in [Sessions -> Session]
      BY ShutdownChange, ZenonT(60)
    <3> QED  BY <3>1, <3>2, <3>3 DEF Unregister, TypeOK
  <2>2. registry' \in [Connectors -> Sessions \cup {NoSession}]
    BY <1>8 DEF EndRotation, DeleteConnector, Kick, Unregister, TypeOK
  <2>3. token' \in [Connectors -> 0..MaxTokens]
    BY <1>8 DEF EndRotation, DeleteConnector, Kick, TypeOK
  <2>4. rotating' \in [Connectors -> BOOLEAN]
    BY <1>8, Zenon DEF EndRotation, DeleteConnector, Kick, TypeOK
  <2>5. permits' = permits
    BY <1>8 DEF EndRotation, DeleteConnector, Kick
  <2> QED  BY <2>1, <2>2, <2>3, <2>4, <2>5 DEF TypeOK
<1>9. CASE Over  BY <1>9 DEF Over, vars, TypeOK
<1> QED  BY <1>1, <1>2, <1>3, <1>4, <1>5, <1>6, <1>7, <1>8, <1>9 DEF Next, Run

\* What the other steps do to the fields of a session.
LEMMA AuthenticateChange ==
    ASSUME TypeOK, NEW s \in Sessions, Authenticate(s)
    PROVE  /\ sess'[s].stage = "authenticated"
           /\ sess'[s].transport = sess[s].transport
           /\ sess'[s].connector = sess[s].connector
           /\ sess'[s].armed = sess[s].armed
           /\ sess'[s].kicked = sess[s].kicked
           /\ sess'[s].woken = sess[s].woken
           /\ sess'[s].replaces = sess[s].replaces
           /\ \A x \in Sessions \ {s} : sess'[x] = sess[x]
BY DEF TypeOK, Authenticate, Session

LEMMA RegisterChange ==
    ASSUME TypeOK, NEW s \in Sessions, Register(s)
    PROVE  /\ sess'[s].stage = IF registry[sess[s].connector] = NoSession THEN "running"
                               ELSE "replacing"
           /\ sess'[s].armed = TRUE
           /\ sess'[s].replaces = registry[sess[s].connector]
           /\ sess'[s].transport = sess[s].transport
           /\ sess'[s].connector = sess[s].connector
           /\ sess'[s].kicked = sess[s].kicked
           /\ sess'[s].woken = sess[s].woken
           /\ \A x \in Sessions \ {s} : sess'[x] = sess[x]
BY DEF TypeOK, Register, Session

LEMMA ShutdownPreviousChange ==
    ASSUME TypeOK, NEW s \in Sessions, ShutdownPrevious(s),
           sess[s].replaces \in Sessions \ {s}
    PROVE  /\ sess'[s].stage = "running" /\ sess'[s].replaces = NoSession
           /\ sess'[s].transport = sess[s].transport
           /\ sess'[s].connector = sess[s].connector
           /\ sess'[s].armed = sess[s].armed
           /\ sess'[s].kicked = sess[s].kicked
           /\ sess'[s].woken = sess[s].woken
           /\ \A x \in Sessions \ {s} :
                /\ sess'[x].stage = sess[x].stage
                /\ sess'[x].transport = sess[x].transport
                /\ sess'[x].connector = sess[x].connector
                /\ sess'[x].armed = sess[x].armed
                /\ sess'[x].replaces = sess[x].replaces
                /\ x = sess[s].replaces => sess'[x].kicked = TRUE
                /\ x = sess[s].replaces => sess'[x].woken = sess[x].armed
           /\ \A x \in Sessions : x # s /\ x # sess[s].replaces => sess'[x] = sess[x]
<1>0. PICK p \in Sessions \ {s} : p = sess[s].replaces  OBVIOUS
<1> DEFINE f == Shutdown(sess, p)
<1>1. sess' = [f EXCEPT ![s] = [f[s] EXCEPT !.stage = "running", !.replaces = NoSession]]
  BY <1>0 DEF ShutdownPrevious
<1>2. /\ f \in [Sessions -> Session] /\ f[s] = sess[s]
      /\ f[p] = [sess[p] EXCEPT !.kicked = TRUE, !.woken = sess[p].armed]
      /\ \A x \in Sessions \ {p} : f[x] = sess[x]
  BY ShutdownChange, Zenon
<1> HIDE DEF f
<1>3. /\ sess'[s] = [sess[s] EXCEPT !.stage = "running", !.replaces = NoSession]
      /\ sess'[p] = [sess[p] EXCEPT !.kicked = TRUE, !.woken = sess[p].armed]
      /\ \A x \in Sessions \ {s, p} : sess'[x] = sess[x]
  BY <1>1, <1>2
<1>4. sess[s] \in Session /\ sess[p] \in Session  BY DEF TypeOK
<1>5. /\ sess'[p].stage = sess[p].stage /\ sess'[p].transport = sess[p].transport
      /\ sess'[p].connector = sess[p].connector /\ sess'[p].armed = sess[p].armed
      /\ sess'[p].replaces = sess[p].replaces
      /\ sess'[p].kicked = TRUE /\ sess'[p].woken = sess[p].armed
  BY <1>3, <1>4 DEF Session
<1>6. /\ sess'[s].stage = "running" /\ sess'[s].replaces = NoSession
      /\ sess'[s].transport = sess[s].transport
      /\ sess'[s].connector = sess[s].connector
      /\ sess'[s].armed = sess[s].armed
      /\ sess'[s].kicked = sess[s].kicked
      /\ sess'[s].woken = sess[s].woken
  BY <1>3, <1>4 DEF Session
<1> QED  BY <1>0, <1>3, <1>5, <1>6, ZenonT(60)

LEMMA UnregisterManagerChange ==
    ASSUME TypeOK, NEW s \in Sessions, UnregisterManager(s)
    PROVE  /\ sess'[s].stage = "leaving"
           /\ sess'[s].transport = sess[s].transport
           /\ \A x \in Sessions \ {s} : sess'[x] = sess[x]
<1>1. CASE Goto(s, "leaving")  BY <1>1, StageChange DEF Stages
<1>2. CASE sess' = [Shutdown(sess, s) EXCEPT ![s].stage = "leaving"]
  BY <1>2 DEF TypeOK, Session, Shutdown
<1> QED  BY <1>1, <1>2, SMTT(60) DEF UnregisterManager

\* unregister on an empty entry.
LEMMA UnregisterNone ==
    ASSUME NEW c \in Connectors, Unregister(c), registry[c] = NoSession
    PROVE  sess' = sess
BY DEF Unregister

LEMMA UnregisterChange ==
    ASSUME TypeOK, NEW c \in Connectors, Unregister(c),
           NEW p \in Sessions, p = registry[c]
    PROVE  /\ sess'[p].kicked = TRUE /\ sess'[p].woken = sess[p].armed
           /\ sess'[p].stage = sess[p].stage
           /\ sess'[p].transport = sess[p].transport
           /\ sess'[p].connector = sess[p].connector
           /\ sess'[p].armed = sess[p].armed
           /\ sess'[p].replaces = sess[p].replaces
           /\ \A x \in Sessions \ {p} : sess'[x] = sess[x]
<1>1. sess' = Shutdown(sess, p)  BY NoSessionAssumption DEF Unregister
<1> QED  BY <1>1 DEF TypeOK, Shutdown, Session

-----------------------------------------------------------------------------
(* The permits.                                                            *)

Held == {"admitted", "replacing", "running", "ending", "leaving"}

\* A step that moves no session into or out of Held, and no permit, keeps the balance.
LEMMA SameHolders ==
    ASSUME PermitsConserved, permits' = permits,
           \A x \in Sessions : /\ sess'[x].transport = sess[x].transport
                               /\ sess'[x].stage \in Held <=> sess[x].stage \in Held
    PROVE  PermitsConserved'
<1>1. \A t \in Transports : Holders(t)' = Holders(t)  BY DEF Holders, Held
<1> QED  BY <1>1 DEF PermitsConserved

LEMMA NextPermits == TypeOK /\ PermitsConserved /\ Registered /\ Next => PermitsConserved'
<1> SUFFICES ASSUME TypeOK, PermitsConserved, Registered, Next PROVE PermitsConserved'
  OBVIOUS
<1>r. \A x \in Sessions : sess[x] \in Session  BY SMTT(60) DEF TypeOK
<1>1. ASSUME NEW s \in Sessions, Authenticate(s) PROVE PermitsConserved'
  <2>1. \A x \in Sessions : /\ sess'[x].transport = sess[x].transport
                            /\ sess'[x].stage \in Held <=> sess[x].stage \in Held
    <3>1. sess[s].stage \notin Held /\ sess'[s].stage \notin Held
      BY <1>1, AuthenticateChange, ZenonT(60) DEF Authenticate, Held
    <3> QED  BY <1>1, <3>1, AuthenticateChange, SMTT(60)
  <2> QED  BY <1>1, <2>1, SameHolders DEF Authenticate
<1>2. ASSUME NEW s \in Sessions,
             Reject(s) \/ TurnAway(s) \/ UpgradeFails(s) \/ SeeShutdown(s) \/ LinkLost(s)
      PROVE  PermitsConserved'
  <2>1. \A x \in Sessions : /\ sess'[x].transport = sess[x].transport
                            /\ sess'[x].stage \in Held <=> sess[x].stage \in Held
    BY <1>2, StageChange, ZenonT(60)
    DEF Reject, TurnAway, UpgradeFails, SeeShutdown, LinkLost, Held, Stages
  <2> QED  BY <1>2, <2>1, SameHolders, SMTT(60)
           DEF Reject, TurnAway, UpgradeFails, SeeShutdown, LinkLost
<1>3. ASSUME NEW s \in Sessions, Register(s) PROVE PermitsConserved'
  <2>1. \A x \in Sessions : /\ sess'[x].transport = sess[x].transport
                            /\ sess'[x].stage \in Held <=> sess[x].stage \in Held
    BY <1>3, RegisterChange, ZenonT(60) DEF Register, Held
  <2> QED  BY <1>3, <2>1, SameHolders, SMTT(60) DEF Register
<1>4. ASSUME NEW s \in Sessions, ShutdownPrevious(s) PROVE PermitsConserved'
  <2>1. \A x \in Sessions : /\ sess'[x].transport = sess[x].transport
                            /\ sess'[x].stage \in Held <=> sess[x].stage \in Held
    <3>1. sess[s].replaces \in Sessions \ {s}
      BY <1>4, SMTT(60) DEF Registered, SetUp, ShutdownPrevious
    <3>2. sess[s].stage \in Held /\ sess'[s].stage \in Held
      BY <1>4, <3>1, ShutdownPreviousChange, ZenonT(60) DEF ShutdownPrevious, Held
    <3>3. sess'[s].transport = sess[s].transport
      BY <1>4, <3>1, ShutdownPreviousChange, ZenonT(60)
    <3>4. \A x \in Sessions \ {s} : /\ sess'[x].transport = sess[x].transport
                                    /\ sess'[x].stage = sess[x].stage
      BY <1>4, <3>1, ShutdownPreviousChange, ZenonT(60)
    <3> QED  BY <3>2, <3>3, <3>4
  <2> QED  BY <1>4, <2>1, SameHolders DEF ShutdownPrevious
<1>5. ASSUME NEW s \in Sessions, UnregisterManager(s) PROVE PermitsConserved'
  <2>1. \A x \in Sessions : /\ sess'[x].transport = sess[x].transport
                            /\ sess'[x].stage \in Held <=> sess[x].stage \in Held
    BY <1>5, UnregisterManagerChange DEF UnregisterManager, Held
  <2> QED  BY <1>5, <2>1, SameHolders DEF UnregisterManager
<1>6. ASSUME NEW s \in Sessions, Admit(s) \/ Leave(s) PROVE PermitsConserved'
  <2>0. sess[s].transport \in Transports  BY <1>r DEF Session
  <2>1. PICK t \in Transports : t = sess[s].transport  BY <2>0
  <2>2. /\ sess'[s].transport = t
        /\ sess'[s].stage = IF Admit(s) THEN "admitted" ELSE "done"
        /\ \A x \in Sessions \ {s} : sess'[x] = sess[x]
    <3>1. CASE Admit(s)  BY <2>1, <3>1, StageChange, ZenonT(60) DEF Admit, Stages
    <3>2. CASE Leave(s) /\ ~Admit(s)  BY <2>1, <3>2, StageChange, ZenonT(60) DEF Leave, Stages
    <3> QED  BY <1>6, <3>1, <3>2
  <2>3. \A u \in Transports \ {t} : Holders(u)' = Holders(u)
    BY <2>1, <2>2 DEF Holders
  <2>4. CASE Admit(s)
    <3>1. Holders(t)' = Holders(t) \cup {s}  BY <2>1, <2>2, <2>4 DEF Holders
    <3>2. s \notin Holders(t)  BY <2>4, SMTT(60) DEF Holders, Admit
    <3>3. Cardinality(Holders(t)') = Cardinality(Holders(t)) + 1
      BY <2>1, <3>1, <3>2, HoldersFinite, FS_AddElement, ZenonT(60)
    <3>4. permits' = [permits EXCEPT ![t] = permits[t] - 1]  BY <2>1, <2>4 DEF Admit
    <3>5. permits'[t] = permits[t] - 1 /\ \A u \in Transports \ {t} : permits'[u] = permits[u]
      BY <2>1, <3>4 DEF TypeOK
    <3>6. permits[t] \in Int /\ Cardinality(Holders(t)) \in Int
      BY <2>1, HoldersFinite DEF TypeOK
    <3> QED  BY <2>1, <2>3, <3>3, <3>5, <3>6, SMTT(60) DEF PermitsConserved
  <2>5. CASE Leave(s) /\ ~Admit(s)
    <3>1. Holders(t)' = Holders(t) \ {s}  BY <2>1, <2>2, <2>5 DEF Holders
    <3>2. s \in Holders(t)  BY <2>1, <2>5, SMTT(60) DEF Holders, Leave
    <3>3. Cardinality(Holders(t)') = Cardinality(Holders(t)) - 1
      BY <2>1, <3>1, <3>2, HoldersFinite, FS_RemoveElement, ZenonT(60)
    <3>4. permits' = [permits EXCEPT ![t] = permits[t] + 1]  BY <2>1, <2>5 DEF Leave
    <3>5. permits'[t] = permits[t] + 1 /\ \A u \in Transports \ {t} : permits'[u] = permits[u]
      BY <2>1, <3>4, SMTT(60) DEF TypeOK
    <3>6. permits[t] \in Int /\ Cardinality(Holders(t)) \in Int
      BY <2>1, HoldersFinite DEF TypeOK
    <3> QED  BY <2>1, <2>3, <3>3, <3>5, <3>6, SMTT(60) DEF PermitsConserved
  <2> QED  BY <1>6, <2>4, <2>5
<1>7. ASSUME NEW c \in Connectors,
             EndRotation(c) \/ DeleteConnector(c) \/ Kick(c)
      PROVE  PermitsConserved'
  <2>1. Unregister(c) /\ permits' = permits
    BY <1>7 DEF EndRotation, DeleteConnector, Kick
  <2>2. \A x \in Sessions : /\ sess'[x].transport = sess[x].transport
                            /\ sess'[x].stage \in Held <=> sess[x].stage \in Held
    <3>1. CASE registry[c] = NoSession  BY <2>1, <3>1, UnregisterNone
    <3>2. CASE registry[c] \in Sessions  BY <2>1, <3>2, UnregisterChange, ZenonT(60)
    <3> QED  BY <3>1, <3>2 DEF TypeOK
  <2> QED  BY <2>1, <2>2, SameHolders
<1>8. ASSUME NEW c \in Connectors, RotateToken(c) PROVE PermitsConserved'
  BY <1>8, SameHolders DEF RotateToken
<1>9. CASE Over  BY <1>9, SameHolders DEF Over, vars
<1> QED  BY <1>1, <1>2, <1>3, <1>4, <1>5, <1>6, <1>7, <1>8, <1>9, ZenonT(60) DEF Next, Run

-----------------------------------------------------------------------------
(* The registry.                                                           *)

\* A step of a session that keeps its registry entry, its shutdown and what it replaces,
\* and does not attach or detach it.
LEMMA Unattached ==
    ASSUME TypeOK, Registered, registry' = registry, NEW s \in Sessions,
           \A x \in Sessions \ {s} : sess'[x] = sess[x],
           sess'[s].stage # "replacing", sess[s].stage # "replacing",
           Attached(s) <=> Attached(s)', sess'[s].stage \in Early => sess[s].stage \in Early,
           sess'[s].connector = sess[s].connector, sess'[s].armed = sess[s].armed,
           sess'[s].kicked = sess[s].kicked, sess'[s].woken = sess[s].woken
    PROVE  Registered'
<1>1. NoGhost'  BY DEF Registered, NoGhost, Attached, TypeOK
<1>2. NoneForgotten'  BY DEF Registered, NoneForgotten, Attached
<1>3. SetUp'  BY DEF Registered, SetUp, Attached
<1>4. KickIsSeen'  BY DEF Registered, KickIsSeen, Attached
<1> QED  BY <1>1, <1>2, <1>3, <1>4 DEF Registered

\* The entry replaced by Register is attached and now known to its replacement.
LEMMA RegisterKeeps ==
    ASSUME TypeOK, Registered, NEW s \in Sessions, Register(s)
    PROVE  Registered'
<1>0. PICK c \in Connectors : c = sess[s].connector  BY DEF TypeOK, Session
<1>1. /\ sess[s].stage = "admitted"
      /\ registry'[c] = s /\ \A d \in Connectors \ {c} : registry'[d] = registry[d]
  BY <1>0 DEF Register, TypeOK
<1>2. registry[c] \in Sessions \cup {NoSession}  BY SMTT(60) DEF TypeOK
<1>3. registry[c] # s
  BY <1>1, NoSessionAssumption DEF Registered, NoGhost, Attached
<1>4. /\ sess'[s].stage = IF registry[c] = NoSession THEN "running" ELSE "replacing"
      /\ sess'[s].armed /\ sess'[s].replaces = registry[c]
      /\ sess'[s].connector = c
      /\ sess'[s].kicked = sess[s].kicked /\ sess'[s].woken = sess[s].woken
      /\ \A x \in Sessions \ {s} : sess'[x] = sess[x]
  BY <1>0, RegisterChange, ZenonT(60)
<1>5. NoGhost'
  <2> SUFFICES ASSUME NEW d \in Connectors, registry'[d] # NoSession
               PROVE  Attached(registry[d])' /\ sess'[registry'[d]].connector = d
    BY DEF NoGhost
  <2>1. CASE d = c  BY <1>1, <1>4, <2>1 DEF Attached
  <2>2. CASE d # c
    <3>1. registry'[d] = registry[d] /\ registry[d] \in Sessions
      BY <1>1, <2>2 DEF TypeOK
    <3>2. Attached(registry[d]) /\ sess[registry[d]].connector = d
      BY <3>1, NoSessionAssumption, SMTT(60) DEF Registered, NoGhost
    <3>3. registry[d] # s  BY <1>1, <3>2 DEF Attached
    <3> QED  BY <1>4, <3>1, <3>2, <3>3 DEF Attached
  <2> QED  BY <2>1, <2>2
<1>6. NoneForgotten'
  <2> SUFFICES ASSUME NEW x \in Sessions, Attached(x)'
               PROVE  \/ registry'[sess'[x].connector] = x
                      \/ sess'[x].kicked
                      \/ \E q \in Sessions : sess'[q].stage = "replacing" /\ sess'[q].replaces = x
    BY DEF NoneForgotten
  <2>1. CASE x = s  BY <1>1, <1>4, <2>1, SMTT(60)
  <2>2. CASE x # s
    <3>1. sess'[x] = sess[x] /\ Attached(x)  BY <1>4, <2>2, SMTT(60) DEF Attached
    <3>2. sess[x].connector \in Connectors  BY DEF TypeOK, Session
    <3>3. CASE registry[sess[x].connector] = x
      <4>1. CASE sess[x].connector = c
        BY <1>4, <3>3, <4>1, NoSessionAssumption, SMTT(60)
      <4>2. CASE sess[x].connector # c  BY <1>1, <3>1, <3>2, <3>3, <4>2, SMTT(60)
      <4> QED  BY <4>1, <4>2, SMTT(60)
    <3>4. CASE sess[x].kicked  BY <3>1, <3>4
    <3>5. CASE \E q \in Sessions : sess[q].stage = "replacing" /\ sess[q].replaces = x
      BY <1>1, <1>4, <3>5, SMTT(60)
    <3> QED  BY <3>1, <3>3, <3>4, <3>5, SMTT(60) DEF Registered, NoneForgotten
  <2> QED  BY <2>1, <2>2, SMTT(60)
<1>7. SetUp'
  <2>1. registry[c] \in Sessions => sess[registry[c]].stage \notin Early
    BY NoSessionAssumption, SMTT(60) DEF Registered, NoGhost, Attached, Early
  <2> QED  BY <1>1, <1>2, <1>3, <1>4, <2>1 DEF Registered, SetUp, Attached, Early
<1>8. KickIsSeen'
  <2>1. sess[s].kicked = FALSE  BY <1>1 DEF Registered, SetUp, Early
  <2> QED  BY <1>4, <2>1 DEF Registered, KickIsSeen, Attached
<1> QED  BY <1>5, <1>6, <1>7, <1>8 DEF Registered

\* The replaced session has now been shut down.
LEMMA ShutdownPreviousKeeps ==
    ASSUME TypeOK, Registered, NEW s \in Sessions, ShutdownPrevious(s)
    PROVE  Registered'
<1>1. sess[s].stage = "replacing" /\ registry' = registry  BY SMTT(60) DEF ShutdownPrevious
<1>2. sess[s].replaces \in Sessions \ {s} /\ sess[sess[s].replaces].stage \notin Early
  BY <1>1 DEF Registered, SetUp
<1>3. /\ sess'[s].stage = "running"
      /\ sess'[s].connector = sess[s].connector /\ sess'[s].armed = sess[s].armed
      /\ sess'[s].kicked = sess[s].kicked /\ sess'[s].woken = sess[s].woken
  BY <1>2, ShutdownPreviousChange, Zenon
<1>4. \A x \in Sessions \ {s} :
        /\ sess'[x].stage = sess[x].stage /\ sess'[x].connector = sess[x].connector
        /\ sess'[x].armed = sess[x].armed /\ sess'[x].replaces = sess[x].replaces
        /\ x = sess[s].replaces => sess'[x].kicked = TRUE
        /\ x = sess[s].replaces => sess'[x].woken = sess[x].armed
        /\ x # sess[s].replaces => sess'[x] = sess[x]
  <2> TAKE x \in Sessions \ {s}
  <2>1. sess'[x].stage = sess[x].stage /\ sess'[x].connector = sess[x].connector
    BY <1>2, ShutdownPreviousChange, Zenon
  <2>2. sess'[x].armed = sess[x].armed /\ sess'[x].replaces = sess[x].replaces
    BY <1>2, ShutdownPreviousChange, Zenon
  <2>3. x = sess[s].replaces => sess'[x].kicked = TRUE
    BY <1>2, ShutdownPreviousChange, Zenon
  <2>4. x = sess[s].replaces => sess'[x].woken = sess[x].armed
    BY <1>2, ShutdownPreviousChange, ZenonT(60)
  <2>5. x # sess[s].replaces => sess'[x] = sess[x]
    BY <1>2, ShutdownPreviousChange, ZenonT(60)
  <2> QED  BY <2>1, <2>2, <2>3, <2>4, <2>5
<1>5. \A x \in Sessions : /\ Attached(x)' <=> Attached(x)
                          /\ sess'[x].connector = sess[x].connector
                          /\ sess'[x].armed = sess[x].armed
  BY <1>1, <1>3, <1>4 DEF Attached
<1>6. NoGhost'  BY <1>1, <1>5 DEF Registered, NoGhost, TypeOK
<1>7. NoneForgotten'
  <2> SUFFICES ASSUME NEW x \in Sessions, Attached(x)'
               PROVE  \/ registry'[sess'[x].connector] = x
                      \/ sess'[x].kicked
                      \/ \E q \in Sessions : sess'[q].stage = "replacing" /\ sess'[q].replaces = x
    BY DEF NoneForgotten
  <2>1. Attached(x)  BY <1>5
  <2>2. CASE registry[sess[x].connector] = x  BY <1>1, <1>5, <2>2
  <2>3. CASE sess[x].kicked  BY <1>3, <1>4, <2>3, SMTT(60)
  <2>4. CASE \E q \in Sessions : sess[q].stage = "replacing" /\ sess[q].replaces = x
    <3>1. PICK q \in Sessions : sess[q].stage = "replacing" /\ sess[q].replaces = x
      BY <2>4, SMTT(60)
    <3>2. CASE q = s  BY <1>2, <1>4, <3>1, <3>2
    <3>3. CASE q # s  BY <1>4, <3>1, <3>3, SMTT(60)
    <3> QED  BY <3>2, <3>3
  <2> QED  BY <2>1, <2>2, <2>3, <2>4 DEF Registered, NoneForgotten
<1>8. SetUp'
  <2>1. \A x \in Sessions : sess'[x].stage \in Early => sess'[x].kicked = FALSE
    BY <1>2, <1>3, <1>4, SMTT(60) DEF Registered, SetUp, Early
  <2>2. \A x \in Sessions : sess'[x].stage \in Early => sess[x].stage \in Early
    BY <1>3, <1>4 DEF Early
  <2>3. \A x \in Sessions : sess'[x].stage = "replacing" =>
          x # s /\ sess'[x].replaces = sess[x].replaces /\ sess[x].stage = "replacing"
    BY <1>3, <1>4, SMTT(60)
  <2>4. \A x \in Sessions : sess'[x].stage = "replacing" =>
          sess'[x].replaces \in Sessions \ {x} /\ sess'[sess'[x].replaces].stage \notin Early
    BY <2>2, <2>3 DEF Registered, SetUp
  <2>5. \A x \in Sessions : Attached(x)' => sess'[x].armed
    BY <1>5, SMTT(60) DEF Registered, SetUp
  <2> QED  BY <2>1, <2>4, <2>5, SMTT(60) DEF SetUp
<1>9. KickIsSeen'
  <2>1. \A x \in Sessions : Attached(x) => sess[x].armed  BY SMTT(60) DEF Registered, SetUp
  <2> QED  BY <1>3, <1>4, <1>5, <2>1 DEF Registered, KickIsSeen
<1> QED  BY <1>6, <1>7, <1>8, <1>9 DEF Registered

\* A session takes out its own entry or none.
LEMMA UnregisterManagerKeeps ==
    ASSUME TypeOK, Registered, NEW s \in Sessions, UnregisterManager(s)
    PROVE  Registered'
<1>0. PICK c \in Connectors : c = sess[s].connector  BY DEF TypeOK, Session
<1>1. /\ sess[s].stage = "ending" /\ sess'[s].stage = "leaving"
      /\ \A x \in Sessions \ {s} : sess'[x] = sess[x]
  BY UnregisterManagerChange DEF UnregisterManager
<1>2. /\ registry'[c] = IF registry[c] = s THEN NoSession ELSE registry[c]
      /\ \A d \in Connectors \ {c} : registry'[d] = registry[d]
  BY <1>0, SMTT(60) DEF UnregisterManager, TypeOK
<1>3. \A d \in Connectors : registry[d] = s => d = c
  BY <1>0, NoSessionAssumption DEF Registered, NoGhost
<1>4. \A d \in Connectors : registry'[d] = IF registry[d] = s THEN NoSession ELSE registry[d]
  BY <1>2, <1>3, SMTT(60)
<1>5. NoGhost'
  <2> SUFFICES ASSUME NEW d \in Connectors, registry'[d] # NoSession
               PROVE  Attached(registry[d])' /\ sess'[registry'[d]].connector = d
    BY DEF NoGhost
  <2>1. registry'[d] = registry[d] /\ registry[d] \in Sessions \ {s}
    BY <1>4, SMTT(60) DEF TypeOK
  <2>2. Attached(registry[d]) /\ sess[registry[d]].connector = d
    BY <2>1, SMTT(60) DEF Registered, NoGhost
  <2> QED  BY <1>1, <2>1, <2>2 DEF Attached
<1>6. NoneForgotten'
  <2> SUFFICES ASSUME NEW x \in Sessions, Attached(x)'
               PROVE  \/ registry'[sess'[x].connector] = x
                      \/ sess'[x].kicked
                      \/ \E q \in Sessions : sess'[q].stage = "replacing" /\ sess'[q].replaces = x
    BY DEF NoneForgotten
  <2>1. x # s /\ sess'[x] = sess[x] /\ Attached(x)  BY <1>1, SMTT(60) DEF Attached
  <2>2. sess[x].connector \in Connectors  BY DEF TypeOK, Session
  <2>3. CASE registry[sess[x].connector] = x  BY <1>4, <2>1, <2>2, <2>3, SMTT(60)
  <2>4. CASE sess[x].kicked  BY <2>1, <2>4
  <2>5. CASE \E q \in Sessions : sess[q].stage = "replacing" /\ sess[q].replaces = x
    BY <1>1, <2>5, SMTT(60)
  <2> QED  BY <2>1, <2>3, <2>4, <2>5, SMTT(60) DEF Registered, NoneForgotten
<1>7. SetUp'
  <2>1. \A x \in Sessions : sess'[x].stage \in Early => sess[x].stage \in Early
    BY <1>1 DEF Early
  <2> QED  BY <1>1, <2>1 DEF Registered, SetUp, Attached, Early
<1>8. KickIsSeen'  BY <1>1 DEF Registered, KickIsSeen, Attached
<1> QED  BY <1>5, <1>6, <1>7, <1>8 DEF Registered

\* Whom unregister takes out, it shuts down.
LEMMA UnregisterKeeps ==
    ASSUME TypeOK, Registered, NEW c \in Connectors, Unregister(c)
    PROVE  Registered'
<1>1. /\ registry'[c] = NoSession
      /\ \A d \in Connectors \ {c} : registry'[d] = registry[d]
  BY SMTT(60) DEF Unregister, TypeOK
<1>2. CASE registry[c] = NoSession
  <2>1. sess' = sess  BY <1>2, UnregisterNone
  <2>2. registry' = registry  BY <1>2, SMTT(60) DEF Unregister, TypeOK
  <2> QED  BY <2>1, <2>2, SMTT(60)
           DEF Registered, NoGhost, NoneForgotten, SetUp, KickIsSeen, Attached
<1>3. CASE registry[c] # NoSession
  <2>1. PICK p \in Sessions : p = registry[c]  BY <1>3 DEF TypeOK
  <2>2. Attached(p) /\ sess[p].connector = c  BY <1>3, <2>1, SMTT(60) DEF Registered, NoGhost
  <2>3. sess'[p].kicked = TRUE /\ sess'[p].woken = sess[p].armed
    BY <2>1, UnregisterChange, Zenon
  <2>4. \A x \in Sessions \ {p} : sess'[x] = sess[x]  BY <2>1, UnregisterChange, ZenonT(60)
  <2>5. \A x \in Sessions : /\ sess'[x].stage = sess[x].stage
                            /\ sess'[x].connector = sess[x].connector
                            /\ sess'[x].armed = sess[x].armed
                            /\ sess'[x].replaces = sess[x].replaces
    BY <2>1, <2>4, UnregisterChange, ZenonT(60)
  <2>6. \A x \in Sessions : Attached(x)' <=> Attached(x)  BY <2>5 DEF Attached
  <2>7. NoGhost'  BY <1>1, <2>5, <2>6, SMTT(60) DEF Registered, NoGhost, TypeOK
  <2>8. NoneForgotten'
    <3> SUFFICES ASSUME NEW x \in Sessions, Attached(x)'
                 PROVE  \/ registry'[sess'[x].connector] = x
                        \/ sess'[x].kicked
                        \/ \E q \in Sessions : sess'[q].stage = "replacing" /\ sess'[q].replaces = x
      BY DEF NoneForgotten
    <3>1. CASE x = p  BY <2>3, <3>1
    <3>2. CASE x # p
      <4>1. sess'[x] = sess[x] /\ Attached(x)  BY <2>4, <2>6, <3>2
      <4>2. sess[x].connector \in Connectors  BY SMTT(60) DEF TypeOK, Session
      <4>3. CASE registry[sess[x].connector] = x
        BY <1>1, <2>1, <3>2, <4>1, <4>2, <4>3, SMTT(60)
      <4>4. CASE sess[x].kicked  BY <4>1, <4>4, SMTT(60)
      <4>5. CASE \E q \in Sessions : sess[q].stage = "replacing" /\ sess[q].replaces = x
        BY <2>5, <4>5, SMTT(60)
      <4> QED  BY <4>1, <4>3, <4>4, <4>5, ZenonT(60) DEF Registered, NoneForgotten
    <3> QED  BY <3>1, <3>2
  <2>9. SetUp'
    <3>1. sess'[p].stage \notin Early  BY <2>2, <2>5 DEF Attached, Early
    <3>2. \A x \in Sessions : sess'[x].stage \in Early => sess'[x].kicked = FALSE
      BY <2>4, <3>1, SMTT(60) DEF Registered, SetUp
    <3> QED  BY <2>5, <2>6, <3>2, SMTT(60) DEF Registered, SetUp
  <2>10. KickIsSeen'
    <3>1. sess[p].armed  BY <2>2 DEF Registered, SetUp
    <3> QED  BY <2>3, <2>4, <2>6, <3>1, ZenonT(60) DEF Registered, KickIsSeen
  <2> QED  BY <2>7, <2>8, <2>9, <2>10 DEF Registered
<1> QED  BY <1>2, <1>3, SMTT(60)

LEMMA NextRegistered == TypeOK /\ Registered /\ Next => Registered'
<1> SUFFICES ASSUME TypeOK, Registered, Next PROVE Registered'  BY SMTT(60)
<1>1. ASSUME NEW s \in Sessions, Authenticate(s) PROVE Registered'
  BY <1>1, AuthenticateChange, Unattached, ZenonT(60) DEF Authenticate, Attached, Early
<1>2. ASSUME NEW s \in Sessions,
             \/ Reject(s) \/ TurnAway(s) \/ UpgradeFails(s) \/ SeeShutdown(s)
             \/ LinkLost(s) \/ Admit(s) \/ Leave(s)
      PROVE  Registered'
  <2>1. PICK g \in Stages \ {"replacing"} :
          /\ Goto(s, g) /\ registry' = registry /\ sess[s].stage # "replacing"
          /\ g \in Early => sess[s].stage \in Early
          /\ g \in {"running", "ending"} <=> sess[s].stage \in {"running", "ending"}
    <3>1. CASE Reject(s) \/ TurnAway(s)
      <4>1. Goto(s, "done") /\ registry' = registry /\ sess[s].stage \in Early
        BY <3>1 DEF Reject, TurnAway, Early
      <4> QED  BY <4>1 DEF Stages, Early
    <3>2. CASE UpgradeFails(s)  BY <3>2, SMTT(60) DEF UpgradeFails, Stages, Early
    <3>3. CASE SeeShutdown(s) \/ LinkLost(s)
      BY <3>3 DEF SeeShutdown, LinkLost, Stages, Early
    <3>4. CASE Admit(s)  BY <3>4, SMTT(60) DEF Admit, Stages, Early
    <3>5. CASE Leave(s)  BY <3>5 DEF Leave, Stages, Early
    <3> QED  BY <1>2, <3>1, <3>2, <3>3, <3>4, <3>5, ZenonT(60)
  <2>2. Attached(s) <=> Attached(s)'  BY <2>1, StageChange, SMTT(60) DEF Attached
  <2> QED  BY <2>1, <2>2, StageChange, Unattached, SMTT(60)
<1>3. ASSUME NEW c \in Connectors, RotateToken(c) PROVE Registered'
  BY <1>3 DEF RotateToken, Registered, NoGhost, NoneForgotten, SetUp, KickIsSeen, Attached
<1>4. ASSUME NEW c \in Connectors, EndRotation(c) \/ DeleteConnector(c) \/ Kick(c)
      PROVE  Registered'
  BY <1>4, UnregisterKeeps, SMTT(60) DEF EndRotation, DeleteConnector, Kick
<1>5. CASE Over
  BY <1>5 DEF Over, vars, Registered, NoGhost, NoneForgotten, SetUp, KickIsSeen, Attached
<1> QED  BY <1>1, <1>2, <1>3, <1>4, <1>5, RegisterKeeps, ShutdownPreviousKeeps,
            UnregisterManagerKeeps, SMTT(60) DEF Next, Run

LEMMA Invariance == Spec => []IInv
<1>1. IInv /\ [Next]_vars => IInv'
  <2>1. IInv /\ Next => IInv'  BY NextTypeOK, NextPermits, NextRegistered, SMTT(60) DEF IInv
  <2>2. IInv /\ UNCHANGED vars => IInv'
    BY DEF IInv, vars, TypeOK, PermitsConserved, Holders, Registered, NoGhost,
           NoneForgotten, SetUp, KickIsSeen, Attached
  <2> QED  BY <2>1, <2>2
<1> QED  BY <1>1, InitIInv, PTL DEF Spec

-----------------------------------------------------------------------------
\* Types, and with them: no semaphore ever has more permits than it started with.
THEOREM TypeCorrect == Spec => []TypeOK
<1>1. IInv => TypeOK  BY DEF IInv
<1> QED  BY <1>1, Invariance, PTL

\* register, unregister and unregister_manager never leave a session in the registry that
\* is over, and never lose one that runs.
THEOREM RegistryIsExact == Spec => []RegistryExact
<1>1. IInv => RegistryExact  BY DEF IInv, Registered, RegistryExact, NoGhost, NoneForgotten
<1> QED  BY <1>1, Invariance, PTL

\* A shutdown() reaches the session it is meant for, however early it comes.
THEOREM NoKickIsLost == Spec => []KickIsSeen
<1>1. IInv => KickIsSeen  BY DEF IInv, Registered
<1> QED  BY <1>1, Invariance, PTL

\* MAX_CONNECTOR_SESSIONS permits are shared out exactly.
THEOREM PermitsAreConserved == Spec => []PermitsConserved
<1>1. IInv => PermitsConserved  BY DEF IInv
<1> QED  BY <1>1, Invariance, PTL

\* A teardown, the step from "ending" to "leaving", is unregister_manager's, and it takes
\* out no entry but its own.
LEMMA TeardownStep ==
    ASSUME TypeOK, Registered, Next, NEW x \in Sessions,
           sess[x].stage = "ending", sess'[x].stage = "leaving"
    PROVE  \A c \in Connectors : registry[c] # x => registry'[c] = registry[c]
<1>1. ASSUME NEW s \in Sessions, Authenticate(s) PROVE FALSE
  BY <1>1, AuthenticateChange, ZenonT(60) DEF Authenticate
<1>2. ASSUME NEW s \in Sessions, NEW g \in Stages, Goto(s, g),
             sess[s].stage # "ending" \/ g # "leaving"
      PROVE  FALSE
  BY <1>2, StageChange
<1>3. ASSUME NEW s \in Sessions,
             \/ Reject(s) \/ TurnAway(s) \/ UpgradeFails(s) \/ SeeShutdown(s)
             \/ LinkLost(s) \/ Admit(s) \/ Leave(s)
      PROVE  FALSE
  <2>1. PICK g \in Stages : Goto(s, g) /\ (sess[s].stage # "ending" \/ g # "leaving")
    BY <1>3 DEF Reject, TurnAway, UpgradeFails, SeeShutdown, LinkLost, Admit, Leave, Stages
  <2> QED  BY <2>1, <1>2
<1>4. ASSUME NEW s \in Sessions, Register(s) PROVE FALSE
  BY <1>4, RegisterChange, ZenonT(60) DEF Register
<1>5. ASSUME NEW s \in Sessions, ShutdownPrevious(s) PROVE FALSE
  <2>1. sess[s].replaces \in Sessions \ {s}
    BY <1>5 DEF ShutdownPrevious, Registered, SetUp
  <2> QED  BY <1>5, <2>1, ShutdownPreviousChange, Zenon
<1>6. ASSUME NEW s \in Sessions, UnregisterManager(s)
      PROVE  \A c \in Connectors : registry[c] # x => registry'[c] = registry[c]
  <2>1. s = x  BY <1>6, UnregisterManagerChange
  <2> QED  BY <1>6, <2>1, SMTT(60) DEF UnregisterManager, TypeOK
<1>7. ASSUME NEW c \in Connectors, Unregister(c) PROVE FALSE
  <2>1. CASE registry[c] = NoSession  BY <1>7, <2>1, UnregisterNone
  <2>2. CASE registry[c] # NoSession
    <3>1. PICK p \in Sessions : p = registry[c]  BY <2>2 DEF TypeOK
    <3> QED  BY <1>7, <3>1, UnregisterChange, ZenonT(60)
  <2> QED  BY <2>1, <2>2
<1>8. ASSUME NEW c \in Connectors,
             RotateToken(c) \/ EndRotation(c) \/ DeleteConnector(c) \/ Kick(c)
      PROVE  FALSE
  BY <1>7, <1>8, SMTT(60) DEF RotateToken, EndRotation, DeleteConnector, Kick
<1>9. CASE Over  BY <1>9 DEF Over, vars
<1> QED  BY <1>1, <1>3, <1>4, <1>5, <1>6, <1>8, <1>9, ZenonT(60) DEF Next, Run

\* A late teardown of a replaced session leaves the replacement in the registry.
THEOREM TeardownSparesOthers == Spec => ReplacementSurvives
<1>1. IInv /\ [Next]_vars =>
        [\A s \in Sessions : sess[s].stage = "ending" /\ sess'[s].stage = "leaving" =>
            \A c \in Connectors : registry[c] # s => registry'[c] = registry[c]]_vars
  BY TeardownStep, Zenon DEF IInv
<1> QED  BY <1>1, Invariance, PTL DEF Spec, ReplacementSurvives

-----------------------------------------------------------------------------
(* The connector's loop.                                                   *)

\* The attempts counted, the wait and the polls.
WaitTypeOK ==
    /\ pc \in {"poll", "quic", "wss", "session", "sleep", "exited", "stopped"}
    /\ retry_count \in 0..(MaxShift + 1)
    /\ age \in 0..STABLE_SESSION /\ left \in Nat
    /\ rest \in 0..STABLE_SESSION /\ quick \in Nat

Cool(n) == n > 0 => 2^(n - 1) < STABLE_SESSION

\* Every quick poll has been paid for with an attempt, and a wait leaves no less than
\* what is still to wait between the last poll and the next.
HotInv ==
    /\ WaitTypeOK
    /\ Cool(quick)
    /\ quick <= retry_count /\ age <= rest
    /\ pc = "sleep" =>
         /\ quick < retry_count \/ retry_count = MaxShift + 1
         /\ retry_count > 0 /\ age = 0
         /\ rest = STABLE_SESSION \/ rest + left >= reconnect_backoff_secs(retry_count)

LEMMA LeastNumber ==
    ASSUME NEW T, T \subseteq Nat, T # {}
    PROVE  \E x \in T : \A y \in T : x <= y
<1>1. PICK x \in T : \A y \in T : <<y, x>> \notin OpToRel(<, Nat)
  BY NatLessThanWellFounded, WFMin, Zenon
<1>2. \A y \in T : ~(y < x)
  BY <1>1 DEF OpToRel
<1> QED BY <1>2

\* The powers of two grow.
LEMMA PowersGrow ==
    ASSUME NEW i \in 0..MaxShift, NEW j \in i..MaxShift
    PROVE  2^i \in Nat /\ 1 <= 2^i /\ 2^i <= 2^j
<1> DEFINE Grows(n) == \A k \in 0..n : 1 <= 2^k /\ 2^k <= 2^n
           T == {n \in 0..MaxShift : ~Grows(n)}
<1>1. MaxShift \in Nat /\ \A n \in Nat : 2^n \in Int
  BY ReconnectAssumption
<1>2. T = {}
  <2> SUFFICES ASSUME T # {} PROVE FALSE
    OBVIOUS
  <2>1. T \subseteq Nat
    BY <1>1
  <2> HIDE DEF T
  <2>2. PICK n \in T : \A m \in T : n <= m
    BY <2>1, LeastNumber
  <2> USE DEF T
  <2>3. n \in 0..MaxShift /\ ~Grows(n)
    OBVIOUS
  <2>4. CASE n = 0
    <3>1. 2^0 = 1
      OBVIOUS
    <3> QED BY <2>3, <2>4, <3>1
  <2>5. CASE n # 0
    <3>1. n - 1 \in 0..MaxShift /\ ~(n <= n - 1)
      BY <1>1, <2>3, <2>5
    <3>2. Grows(n - 1)
      BY <2>2, <3>1
    <3>3. 2^n = 2 * 2^(n - 1)
      <4>1. 2^((n - 1) + 1) = 2 * 2^(n - 1)
        BY <3>1, DoublingAssumption
      <4>2. (n - 1) + 1 = n
        BY <2>3
      <4> QED BY <4>1, <4>2
    <3>4. 2^n \in Int /\ 2^(n - 1) \in Int /\ 1 <= 2^(n - 1)
      BY <1>1, <2>3, <3>1, <3>2
    <3>5. 2^(n - 1) <= 2^n /\ 1 <= 2^n
      BY <3>3, <3>4
    <3>6. ASSUME NEW k \in 0..n PROVE 1 <= 2^k /\ 2^k <= 2^n
      <4>1. CASE k = n
        BY <3>4, <3>5, <4>1
      <4>2. CASE k # n
        <5>1. k \in 0..(n - 1) /\ 2^k \in Int
          BY <1>1, <2>3, <4>2
        <5>2. 1 <= 2^k /\ 2^k <= 2^(n - 1)
          BY <3>2, <5>1
        <5> QED BY <3>4, <3>5, <5>1, <5>2
      <4> QED BY <4>1, <4>2
    <3> QED BY <2>3, <3>6
  <2> QED BY <2>4, <2>5
<1>3. j \in 0..MaxShift /\ i \in 0..j /\ i \in Nat
  BY <1>1
<1>4. Grows(j)
  BY <1>2, <1>3
<1> QED BY <1>1, <1>3, <1>4

\* Of a wait within STABLE_SESSION the doubling is not cut.
LEMMA ShortWait ==
    ASSUME NEW n \in 1..(MaxShift + 1), reconnect_backoff_secs(n) < STABLE_SESSION
    PROVE  n <= MaxShift /\ 2^(n - 1) < STABLE_SESSION
<1>1. /\ MaxShift \in Nat /\ STABLE_SESSION \in Nat /\ MaxBackoff \in Nat
      /\ 2^(n - 1) \in Int /\ n - 1 \in 0..MaxShift /\ 2^MaxShift \in Int
  BY ReconnectAssumption
<1>2. n - 1 = 0 => 2^(n - 1) = 2^0
  OBVIOUS
<1>3. reconnect_backoff_secs(n) = IF 2^(n - 1) < MaxBackoff THEN 2^(n - 1) ELSE MaxBackoff
  <2>1. CASE n = 1
    BY <1>1, <1>2, <2>1 DEF reconnect_backoff_secs
  <2>2. CASE n > 1 /\ n - 1 < MaxShift
    BY <1>1, <2>2 DEF reconnect_backoff_secs
  <2>3. CASE n > 1 /\ n - 1 = MaxShift
    BY <1>1, <2>3 DEF reconnect_backoff_secs
  <2> QED BY <1>1, <2>1, <2>2, <2>3
<1>4. 2^(n - 1) < STABLE_SESSION
  BY <1>1, <1>3, BackoffAssumption
<1>5. n - 1 # MaxShift
  BY <1>1, <1>4, BackoffAssumption
<1> QED BY <1>1, <1>4, <1>5

LEMMA WaitIsNat == ASSUME NEW n \in 0..(MaxShift + 1) PROVE reconnect_backoff_secs(n) \in Nat
<1> DEFINE shift == IF n <= 1 THEN 0 ELSE IF n - 1 < MaxShift THEN n - 1 ELSE MaxShift
<1>1. MaxShift \in Nat /\ MaxBackoff \in Nat /\ shift \in 0..MaxShift
  BY ReconnectAssumption
<1> HIDE DEF shift
<1>2. 2^shift \in Nat
  BY <1>1, PowersGrow
<1>3. (IF 2^shift < MaxBackoff THEN 2^shift ELSE MaxBackoff) \in Nat
  BY <1>1, <1>2
<1> QED BY <1>3 DEF reconnect_backoff_secs, shift

-----------------------------------------------------------------------------
LEMMA NoneIsCool == Cool(0)
BY DEF Cool

LEMMA HotInitInv == LoopInit => HotInv
BY ReconnectAssumption, NoneIsCool DEF LoopInit, HotInv, WaitTypeOK

\* run_session has returned.
LEMMA OverKeeps == ASSUME HotInv, NEW clean, SessionOver(clean) PROVE HotInv'
<1>1. /\ MaxShift \in Nat /\ STABLE_SESSION \in Nat \ {0} /\ POLL_TIMEOUT \in Nat
      /\ WaitTypeOK
  BY ReconnectAssumption DEF HotInv
<1>2. CASE age >= STABLE_SESSION
  <2>1. rest = STABLE_SESSION
    BY <1>1, <1>2 DEF HotInv, WaitTypeOK
  <2>2. /\ retry_count' = 0 /\ pc' = "poll" /\ left' = POLL_TIMEOUT /\ rest' = 0
        /\ quick' = IF rest < STABLE_SESSION THEN quick + 1 ELSE 0
        /\ age' = 0
    BY <1>2 DEF SessionOver, BeginPoll
  <2> QED BY <1>1, <2>1, <2>2, NoneIsCool DEF HotInv, WaitTypeOK
<1>3. CASE ~(age >= STABLE_SESSION)
  <2>1. /\ retry_count' = IF retry_count <= MaxShift THEN retry_count + 1 ELSE retry_count
        /\ pc' = "sleep" /\ left' = reconnect_backoff_secs(retry_count')
        /\ rest' = rest /\ quick' = quick /\ age' = 0
    BY <1>3 DEF SessionOver, polls
  <2>2. retry_count' \in 1..(MaxShift + 1)
    BY <1>1, <2>1 DEF WaitTypeOK
  <2>3. left' \in Nat
    BY <2>1, <2>2, WaitIsNat
  <2> QED BY <1>1, <2>1, <2>2, <2>3 DEF HotInv, WaitTypeOK
<1> QED BY <1>2, <1>3

\* The wait is over: a poll within STABLE_SESSION has had a wait that was not cut.
LEMMA WakeKeeps == ASSUME HotInv, Wake PROVE HotInv'
<1>1. /\ MaxShift \in Nat /\ STABLE_SESSION \in Nat \ {0} /\ POLL_TIMEOUT \in Nat
      /\ WaitTypeOK /\ pc = "sleep" /\ left = 0
      /\ quick < retry_count \/ retry_count = MaxShift + 1
      /\ retry_count \in 1..(MaxShift + 1) /\ age = 0
      /\ rest = STABLE_SESSION \/ rest + left >= reconnect_backoff_secs(retry_count)
  BY ReconnectAssumption DEF HotInv, WaitTypeOK, Wake
<1>2. /\ pc' = "poll" /\ left' = POLL_TIMEOUT /\ rest' = 0 /\ retry_count' = retry_count
      /\ quick' = IF rest < STABLE_SESSION THEN quick + 1 ELSE 0
      /\ age' = 0
  BY <1>1 DEF Wake, BeginPoll
<1>3. CASE rest < STABLE_SESSION
  <2>1. reconnect_backoff_secs(retry_count) < STABLE_SESSION
    BY <1>1, <1>3, WaitIsNat DEF WaitTypeOK
  <2>2. retry_count <= MaxShift /\ 2^(retry_count - 1) < STABLE_SESSION
    BY <1>1, <2>1, ShortWait
  <2>3. quick \in 0..MaxShift /\ retry_count - 1 \in quick..MaxShift
    BY <1>1, <2>2 DEF WaitTypeOK
  <2>4. 2^quick <= 2^(retry_count - 1) /\ 2^quick \in Int /\ 2^(retry_count - 1) \in Int
    BY <2>3, PowersGrow
  <2>5. quick' = quick + 1
    BY <1>2, <1>3, <2>3
  <2>6. Cool(quick + 1)
    <3>1. (quick + 1) - 1 = quick
      BY <2>3
    <3> QED BY <1>1, <2>2, <2>4, <3>1 DEF Cool
  <2> QED BY <1>1, <1>2, <2>3, <2>5, <2>6 DEF HotInv, WaitTypeOK
<1>4. CASE ~(rest < STABLE_SESSION)
  BY <1>1, <1>2, <1>4, NoneIsCool DEF HotInv, WaitTypeOK
<1> QED BY <1>3, <1>4

LEMMA TickKeeps == ASSUME HotInv, Tick PROVE HotInv'
<1>1. STABLE_SESSION \in Nat \ {0} /\ MaxShift \in Nat
  BY ReconnectAssumption
<1>2. /\ pc' = pc /\ retry_count' = retry_count
      /\ rest' = Capped(rest, STABLE_SESSION)
      /\ quick' = IF rest' < STABLE_SESSION THEN quick ELSE 0
      /\ age' = IF pc \in {"quic", "wss", "session"} THEN Capped(age, STABLE_SESSION) ELSE age
  BY DEF Tick, loop
<1>3. left' = left \/ (left > 0 /\ left' = left - 1)
  BY DEF Tick
<1>4. pc = "sleep" => left > 0 /\ left' = left - 1
  BY DEF Tick
<1>5. WaitTypeOK'
  BY <1>1, <1>2, <1>3 DEF HotInv, WaitTypeOK, Capped
<1>6. Cool(quick')
  BY <1>2, NoneIsCool DEF HotInv
<1>7. pc' = "sleep" =>
        rest' = STABLE_SESSION \/ rest' + left' >= reconnect_backoff_secs(retry_count')
  BY <1>1, <1>2, <1>4, WaitIsNat DEF HotInv, WaitTypeOK, Capped
<1> QED BY <1>1, <1>2, <1>5, <1>6, <1>7 DEF HotInv, WaitTypeOK, Capped

\* What leaves the polls, the attempts and the wait alone, or begins one of another kind.
LEMMA OthersKeep ==
    ASSUME HotInv, rest' = rest, quick' = quick, retry_count' = retry_count,
           pc' = pc \/ pc' \in {"quic", "wss", "session"},
           left' \in Nat, pc = "sleep" => left' = left, age' = age \/ age' = 0
    PROVE  HotInv'
<1>1. STABLE_SESSION \in Nat \ {0} /\ MaxShift \in Nat
  BY ReconnectAssumption
<1> QED BY <1>1 DEF HotInv, WaitTypeOK

LEMMA GoneKeeps == ASSUME HotInv, NEW how \in {"exited", "stopped"}, Gone(how) PROVE HotInv'
<1>1. STABLE_SESSION \in Nat \ {0} /\ MaxShift \in Nat
  BY ReconnectAssumption
<1> QED BY <1>1, NoneIsCool DEF HotInv, WaitTypeOK, Gone

LEMMA HotNextInv == ASSUME HotInv, [LoopNext]_loopVars PROVE HotInv'
<1>1. /\ READ_TIMEOUT \in Nat /\ WSS_TIMEOUT \in Nat /\ left \in Nat
  BY ReconnectAssumption DEF HotInv, WaitTypeOK
<1>2. CASE Wake
  BY <1>2, WakeKeeps
<1>3. CASE PollRejected \/ Signal
  BY <1>3, GoneKeeps DEF PollRejected, Signal
<1>4. CASE PollSettings \/ PollFails
  BY <1>1, <1>4, OthersKeep DEF PollSettings, PollFails, RunSession, polls
<1>5. CASE AttemptFails
  <2>1. CASE SessionOver(FALSE)
    BY <2>1, OverKeeps
  <2>2. CASE ~SessionOver(FALSE)
    BY <1>1, <1>5, <2>2, OthersKeep DEF AttemptFails, loop, polls
  <2> QED BY <2>1, <2>2
<1>6. CASE Ends
  <2>1. \E clean \in BOOLEAN : SessionOver(clean)
    BY <1>6 DEF Ends, SendFails, ReadTimesOut, Closes
  <2> QED BY <2>1, OverKeeps
<1>7. CASE Connects
  BY <1>1, <1>7, OthersKeep DEF Connects, Serve, polls
<1>8. CASE Frame \/ SendOut \/ Write \/ WriterFails
  BY <1>1, <1>8, OthersKeep DEF Frame, SendOut, Write, WriterFails, loop, clock, polls
<1>9. CASE CheckToken \/ SessionRegistered \/ ServerEnds \/ Revoke \/ SetForce \/ Network
  BY <1>1, <1>9, OthersKeep DEF CheckToken, SessionRegistered, ServerEnds, Revoke, SetForce, Network,
     loop, clock, polls
<1>10. CASE Tick
  BY <1>10, TickKeeps
<1>11. CASE UNCHANGED loopVars
  BY <1>1, <1>11, OthersKeep DEF loopVars, loop, clock, polls
<1> QED
  BY <1>2, <1>3, <1>4, <1>5, <1>6, <1>7, <1>8, <1>9, <1>10, <1>11,
     ZenonT(60) DEF LoopNext, Loop

\* The server is not redialled hot: of the polls within STABLE_SESSION of the one before,
\* each has followed a wait that doubled with the attempts, so no more than the binary
\* logarithm of STABLE_SESSION come in a row.  For every length of the timeouts and every
\* way in which attempts and sessions end.
THEOREM ConnectorIsNeverHot == LoopSpec => []NeverHot
<1>1. HotInv => NeverHot
  BY DEF HotInv, NeverHot, Cool
<1> QED BY HotInitInv, HotNextInv, <1>1, PTL DEF LoopSpec

=============================================================================
