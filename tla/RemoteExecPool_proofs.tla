------------------------ MODULE RemoteExecPool_proofs ------------------------
(***************************************************************************)
(* Proofs about RemoteExecPool: its type invariant and every safety        *)
(* property of the pool, for any number of connections, configurations,    *)
(* callers, calls, failures, timeouts and cancellations.                   *)
(***************************************************************************)
EXTENDS RemoteExecPool, FiniteSetTheorems, TLAPS

-----------------------------------------------------------------------------
(* The inductive invariant. *)

HasSession ==
    {"pruneOut", "staleOut", "extra", "store", "begin", "lock", "run", "mark", "failOut", "end"}

(* What each call knows of the session it deals with. *)
Locals ==
    \A c \in Call :
        /\ pc[c] # "idle" => req[c] \in Request
        /\ pc[c] \in HasSession => h[c] \in Sess
        /\ pc[c] \in {"extra", "store", "begin", "lock", "run", "mark"} =>
              h[c].conn = req[c].conn /\ h[c].sig = req[c].sig
        /\ pc[c] \in {"extra", "store", "begin", "lock", "run"} => h[c] # tried[c]
        /\ pc[c] = "run" => owner[h[c]] = c

(* The session of a call that has connected and not stored is known to no  *)
(* other call.                                                             *)
Private ==
    \A c \in Call : pc[c] \in {"extra", "store"} =>
        /\ h[c] \in open
        /\ h[c] \notin detached
        /\ \A k \in Conn : cached[k] # h[c]
        /\ \A d \in Call :
              /\ h[c] # tried[d]
              /\ h[c] \notin todo[d] /\ h[c] \notin closing[d]
              /\ d # c => h[c] # h[d]

(* A session that is in the map is open and nobody is to close it. *)
InMap ==
    \A k \in Conn : cached[k] # None =>
        /\ cached[k] \in open /\ cached[k].conn = k
        /\ cached[k] \notin detached
        /\ \A c \in Call : cached[k] \notin closing[c]

(* A session that failed does not come back. *)
FailedStaysOut ==
    \A c \in Call, k \in Conn :
        /\ tried[c] # None => cached[k] # tried[c]
        /\ pc[c] = "end" => cached[k] # h[c]

(* Connections that have a session in the map or are about to. *)
Pending == {req[c].conn : c \in {d \in Call : pc[d] = "store"}}
Taken == CachedConns \cup Pending
RoomKept == Cardinality(Taken) <= MaxCached - 1 + Cardinality(Call)

IInv ==
    /\ TypeOK
    /\ Locals
    /\ Private
    /\ InMap
    /\ FailedStaysOut
    /\ UseIsCounted
    /\ RoomKept

-----------------------------------------------------------------------------
(* Counting the uses and the room. *)

Users(s) == {c \in Call : Uses(c) /\ h[c] = s}

(* A step that begins and ends no use keeps the counts right.               *)
LEMMA UsesKept ==
    ASSUME UseIsCounted, UNCHANGED inFlight,
           \A c \in Call : Uses(c)' <=> Uses(c),
           \A c \in Call : Uses(c) => h'[c] = h[c]
    PROVE  UseIsCounted'
  <1>1. \A s \in Sess : Users(s)' = Users(s)
    BY DEF Users
  <1>2. \A s \in Sess : inFlight[s] = Cardinality(Users(s))
    BY DEF UseIsCounted, Users
  <1>3. \A s \in Sess : inFlight'[s] = Cardinality(Users(s)')
    BY <1>1, <1>2
  <1> QED  BY <1>3 DEF UseIsCounted, Users

(* One call begins to use its session (RemoteExecUseGuard::new).            *)
LEMMA UseBegins ==
    ASSUME TypeOK, UseIsCounted, NEW c \in Call, h[c] \in Sess, ~ Uses(c), Uses(c)',
           inFlight' = [inFlight EXCEPT ![h[c]] = @ + 1],
           \A d \in Call \ {c} : Uses(d)' <=> Uses(d),
           \A d \in Call \ {c} : Uses(d) => h'[d] = h[d],
           h'[c] = h[c]
    PROVE  UseIsCounted'
  <1>1. ASSUME NEW s \in Sess  PROVE inFlight'[s] = Cardinality(Users(s)')
    <2>1. inFlight[s] = Cardinality(Users(s)) /\ inFlight[s] \in Nat
      BY DEF UseIsCounted, Users, TypeOK
    <2>2. IsFiniteSet(Users(s))
      BY PoolAssumption, FS_Subset DEF Users
    <2>3. CASE s = h[c]
      <3>1. Users(s)' = Users(s) \cup {c} /\ c \notin Users(s)
        BY <2>3 DEF Users
      <3>2. Cardinality(Users(s)') = Cardinality(Users(s)) + 1
        BY <3>1, <2>2, FS_AddElement
      <3> QED  BY <3>2, <2>1, <2>3 DEF TypeOK
    <2>4. CASE s # h[c]
      <3>1. Users(s)' = Users(s)
        BY <2>4 DEF Users
      <3> QED  BY <3>1, <2>1, <2>4 DEF TypeOK
    <2> QED  BY <2>3, <2>4
  <1> QED  BY <1>1 DEF UseIsCounted, Users

(* One call ends its use (the drop of RemoteExecUseGuard).  The count was    *)
(* not zero.                                                                *)
LEMMA UseEnds ==
    ASSUME TypeOK, UseIsCounted, NEW c \in Call, h[c] \in Sess, Uses(c), ~ Uses(c)',
           inFlight' = [inFlight EXCEPT ![h[c]] = @ - 1],
           \A d \in Call \ {c} : Uses(d)' <=> Uses(d),
           \A d \in Call \ {c} : Uses(d) => h'[d] = h[d]
    PROVE  UseIsCounted' /\ inFlight' \in [Sess -> Nat]
  <1>1. ASSUME NEW s \in Sess
        PROVE  inFlight'[s] = Cardinality(Users(s)') /\ inFlight'[s] \in Nat
    <2>1. inFlight[s] = Cardinality(Users(s)) /\ inFlight[s] \in Nat
      BY DEF UseIsCounted, Users, TypeOK
    <2>2. IsFiniteSet(Users(s))
      BY PoolAssumption, FS_Subset DEF Users
    <2>3. CASE s = h[c]
      <3>1. Users(s)' = Users(s) \ {c} /\ c \in Users(s)
        BY <2>3 DEF Users
      <3>2. /\ Cardinality(Users(s)') = Cardinality(Users(s)) - 1
            /\ Cardinality(Users(s)') \in Nat
        BY <3>1, <2>2, FS_RemoveElement, FS_CardinalityType
      <3> QED  BY <3>2, <2>1, <2>3 DEF TypeOK
    <2>4. CASE s # h[c]
      <3>1. Users(s)' = Users(s)
        BY <2>4 DEF Users
      <3> QED  BY <3>1, <2>1, <2>4 DEF TypeOK
    <2> QED  BY <2>3, <2>4
  <1>2. inFlight' \in [Sess -> Nat]
    BY <1>1 DEF TypeOK
  <1> QED  BY <1>1, <1>2 DEF UseIsCounted, Users

(* The connections of some calls are not more than the calls. *)
LEMMA ConnectionsOfCalls ==
    ASSUME NEW D \in SUBSET Call
    PROVE  /\ IsFiniteSet({req[c].conn : c \in D})
           /\ Cardinality({req[c].conn : c \in D}) <= Cardinality(D)
  <1> DEFINE K == {req[c].conn : c \in D}
             f == [c \in D |-> req[c].conn]
  <1>1. IsFiniteSet(D)
    BY PoolAssumption, FS_Subset
  <1>2. f \in Surjection(D, K)
    BY DEF Surjection
  <1> HIDE DEF f, K
  <1>3. IsFiniteSet(K) /\ Cardinality(K) <= Cardinality(D)
    BY <1>1, <1>2, FS_Surjection
  <1> QED  BY <1>3 DEF K

(* Callers and connections are finitely many. *)
LEMMA TakenIsFinite ==
    IsFiniteSet(CachedConns) /\ IsFiniteSet(Pending) /\ IsFiniteSet(Taken)
  <1>1. IsFiniteSet(CachedConns)
    BY PoolAssumption, FS_Subset DEF CachedConns
  <1>2. IsFiniteSet(Pending)
    BY ConnectionsOfCalls DEF Pending
  <1> QED  BY <1>1, <1>2, FS_Union DEF Taken

(* Nobody takes more room. *)
LEMMA RoomStaysKept ==
    ASSUME RoomKept, Taken' \subseteq Taken
    PROVE  RoomKept'
  <1>1. IsFiniteSet(Taken)
    BY TakenIsFinite
  <1>2. IsFiniteSet(Taken') /\ Cardinality(Taken') <= Cardinality(Taken)
    BY <1>1, FS_Subset
  <1>3. Cardinality(Taken') \in Nat /\ Cardinality(Taken) \in Nat /\ Cardinality(Call) \in Nat
    BY <1>1, <1>2, FS_CardinalityType, PoolAssumption
  <1> QED  BY <1>2, <1>3, PoolAssumption DEF RoomKept

(* A call looks at every session of the map, none of which is private. *)
LEMMA StartKeeps ==
    ASSUME IInv, NEW c \in Call, NEW r \in Request, Start(c, r)
    PROVE  IInv'
  <1> USE PoolAssumption DEF IInv, TypeOK, Start, GoTo, Cached, sessions, background
  <1>1. TypeOK'
    BY DEF PoolSteps, Locals
  <1>2. Locals'
    BY DEF Locals, HasSession, Request, Sess
  <1>3. Private'
    BY DEF Locals, Private, InMap, HasSession, Request, Sess
  <1>4. InMap'
    BY DEF Locals, Private, InMap, HasSession, Request, Sess
  <1>5. FailedStaysOut'
    BY DEF Locals, Private, InMap, FailedStaysOut, HasSession, Request, Sess
  <1>6. UseIsCounted'
    <2>1. \A d \in Call : (Uses(d)' <=> Uses(d)) /\ (Uses(d) => h'[d] = h[d])
      BY DEF Uses, Retries, Locals, Request, Modes
    <2> QED  BY <2>1, UsesKept
  <1>7. RoomKept'
    <2>1. Taken' \subseteq Taken
      BY DEF Taken, Pending, CachedConns, Locals, InMap, Request, Sess
    <2> QED  BY <2>1, RoomStaysKept
  <1> QED  BY <1>1, <1>2, <1>3, <1>4, <1>5, <1>6, <1>7

(* The session found idle comes from the call's own list. *)
LEMMA PruneIdleKeeps ==
    ASSUME IInv, NEW c \in Call, NEW s \in todo[c], PruneIdle(c, s)
    PROVE  IInv'
  <1> USE PoolAssumption DEF IInv, TypeOK, PruneIdle, At, GoTo, sessions,
      background, counters
  <1>1. TypeOK'
    BY DEF PoolSteps, Locals
  <1>2. Locals'
    BY DEF Locals, HasSession, Request, Sess
  <1>3. Private'
    BY DEF Locals, Private, InMap, HasSession, Request, Sess
  <1>4. InMap'
    BY DEF Locals, Private, InMap, HasSession, Request, Sess
  <1>5. FailedStaysOut'
    BY DEF Locals, Private, InMap, FailedStaysOut, HasSession, Request, Sess
  <1>6. UseIsCounted'
    <2>1. \A d \in Call : (Uses(d)' <=> Uses(d)) /\ (Uses(d) => h'[d] = h[d])
      BY DEF Uses, Retries, Locals, Request, Modes
    <2> QED  BY <2>1, UsesKept
  <1>7. RoomKept'
    <2>1. Taken' \subseteq Taken
      BY DEF Taken, Pending, CachedConns, Locals, InMap, Request, Sess
    <2> QED  BY <2>1, RoomStaysKept
  <1> QED  BY <1>1, <1>2, <1>3, <1>4, <1>5, <1>6, <1>7

(* The list is done with. *)
LEMMA PruneEndsKeeps ==
    ASSUME IInv, NEW c \in Call, PruneEnds(c)
    PROVE  IInv'
  <1> USE PoolAssumption DEF IInv, TypeOK, PruneEnds, At, GoTo, sessions,
      background, counters
  <1>1. TypeOK'
    BY DEF PoolSteps, Locals
  <1>2. Locals'
    BY DEF Locals, HasSession, Request, Sess
  <1>3. Private'
    BY DEF Locals, Private, InMap, HasSession, Request, Sess
  <1>4. InMap'
    BY DEF Locals, Private, InMap, HasSession, Request, Sess
  <1>5. FailedStaysOut'
    BY DEF Locals, Private, InMap, FailedStaysOut, HasSession, Request, Sess
  <1>6. UseIsCounted'
    <2>1. \A d \in Call : (Uses(d)' <=> Uses(d)) /\ (Uses(d) => h'[d] = h[d])
      BY DEF Uses, Retries, Locals, Request, Modes
    <2> QED  BY <2>1, UsesKept
  <1>7. RoomKept'
    <2>1. Taken' \subseteq Taken
      BY DEF Taken, Pending, CachedConns, Locals, InMap, Request, Sess
    <2> QED  BY <2>1, RoomStaysKept
  <1> QED  BY <1>1, <1>2, <1>3, <1>4, <1>5, <1>6, <1>7

(* What is found in the map is not private, and not what has just failed. *)
LEMMA LookupKeeps ==
    ASSUME IInv, NEW c \in Call, Lookup(c)
    PROVE  IInv'
  <1> USE PoolAssumption DEF IInv, TypeOK, Lookup, At, GoTo, sessions, background,
      counters
  <1>1. TypeOK'
    BY DEF PoolSteps, Locals, Request
  <1>2. Locals'
    <2>1. \A d \in Call \ {c} : h'[d] = h[d] /\ pc'[d] = pc[d]
      OBVIOUS
    <2>2. req[c] \in Request /\ req[c].conn \in Conn
      BY DEF Locals, Request
    <2>3. /\ pc'[c] \in {"staleOut", "begin"} => h'[c] \in Sess
          /\ pc'[c] = "begin" => /\ h'[c].conn = req[c].conn /\ h'[c].sig = req[c].sig
                                /\ h'[c] # tried[c]
          /\ pc'[c] \in {"connect", "staleOut", "begin"}
      BY <2>2 DEF InMap, FailedStaysOut
    <2> QED  BY <2>1, <2>2, <2>3 DEF Locals, HasSession
  <1>3. Private'
    BY DEF Locals, Private, InMap, HasSession, Request, Sess
  <1>4. InMap'
    BY DEF Locals, Private, InMap, HasSession, Request, Sess
  <1>5. FailedStaysOut'
    BY DEF Locals, Private, InMap, FailedStaysOut, HasSession, Request, Sess
  <1>6. UseIsCounted'
    <2>1. \A d \in Call : (Uses(d)' <=> Uses(d)) /\ (Uses(d) => h'[d] = h[d])
      BY DEF Uses, Retries, Locals, Request, Modes
    <2> QED  BY <2>1, UsesKept
  <1>7. RoomKept'
    <2>1. Taken' \subseteq Taken
      BY DEF Taken, Pending, CachedConns, Locals, InMap, Request, Sess
    <2> QED  BY <2>1, RoomStaysKept
  <1> QED  BY <1>1, <1>2, <1>3, <1>4, <1>5, <1>6, <1>7

(* A session is closed once it is out of the map. *)
LEMMA InvalidateKeeps ==
    ASSUME IInv, NEW c \in Call, Invalidate(c)
    PROVE  IInv'
  <1> USE PoolAssumption DEF IInv, TypeOK, Invalidate, Retries, GoTo, Cached,
      sessions, background, counters
  <1>1. TypeOK'
    BY DEF PoolSteps, Locals
  <1>2. Locals'
    BY DEF Locals, HasSession, Request, Sess
  <1>3. Private'
    BY DEF Locals, Private, InMap, HasSession, Request, Sess
  <1>4. InMap'
    <2>1. CASE h[c] \in Cached
      <3>1. h[c] \in Sess /\ cached[h[c].conn] = h[c]
        BY <2>1 DEF InMap, Locals, HasSession
      <3>2. \A k \in Conn : cached'[k] # None => cached'[k] = cached[k] /\ cached[k] # h[c]
        BY <2>1, <3>1 DEF InMap
      <3>3. \A d \in Call : closing'[d] \subseteq closing[d] \cup {h[c]}
        BY <2>1
      <3> QED  BY <3>2, <3>3 DEF InMap
    <2>2. CASE h[c] \notin Cached
      BY <2>2 DEF InMap
    <2> QED  BY <2>1, <2>2
  <1>5. FailedStaysOut'
    BY DEF Locals, Private, InMap, FailedStaysOut, HasSession, Request, Sess
  <1>6. UseIsCounted'
    <2>1. \A d \in Call : (Uses(d)' <=> Uses(d)) /\ (Uses(d) => h'[d] = h[d])
      BY DEF Uses, Retries, Locals, Request, Modes
    <2> QED  BY <2>1, UsesKept
  <1>7. RoomKept'
    <2>1. Taken' \subseteq Taken
      BY DEF Taken, Pending, CachedConns, Locals, InMap, Request, Sess
    <2> QED  BY <2>1, RoomStaysKept
  <1> QED  BY <1>1, <1>2, <1>3, <1>4, <1>5, <1>6, <1>7

(* What is closed is neither in the map nor private. *)
LEMMA CloseKeeps ==
    ASSUME IInv, NEW c \in Call, Close(c)
    PROVE  IInv'
  <1> USE PoolAssumption DEF IInv, TypeOK, Close, background, counters
  <1>1. TypeOK'
    BY DEF PoolSteps, Locals
  <1>2. Locals'
    BY DEF Locals, HasSession, Request, Sess
  <1>3. Private'
    BY DEF Locals, Private, InMap, HasSession, Request, Sess
  <1>4. InMap'
    BY DEF Locals, Private, InMap, HasSession, Request, Sess
  <1>5. FailedStaysOut'
    BY DEF Locals, Private, InMap, FailedStaysOut, HasSession, Request, Sess
  <1>6. UseIsCounted'
    <2>1. \A d \in Call : (Uses(d)' <=> Uses(d)) /\ (Uses(d) => h'[d] = h[d])
      BY DEF Uses, Retries, Locals, Request, Modes
    <2> QED  BY <2>1, UsesKept
  <1>7. RoomKept'
    <2>1. Taken' \subseteq Taken
      BY DEF Taken, Pending, CachedConns, Locals, InMap, Request, Sess
    <2> QED  BY <2>1, RoomStaysKept
  <1> QED  BY <1>1, <1>2, <1>3, <1>4, <1>5, <1>6, <1>7

(* A new session has the number of one that nobody refers to. *)
LEMMA ConnectKeeps ==
    ASSUME IInv, NEW c \in Call, Connect(c)
    PROVE  IInv'
  <1> USE PoolAssumption DEF IInv, TypeOK, Connect, FreeFor, Free, At, GoTo,
      Cached, background, counters
  <1>1. TypeOK'
    BY DEF PoolSteps, Locals
  <1>2. Locals'
    BY DEF Locals, HasSession, Request, Sess
  <1>3. Private'
    <2>1. PICK s \in FreeFor(req[c]) :
             h' = [h EXCEPT ![c] = s] /\ open' = open \cup {s} /\ fresh' = fresh \ {s}
      OBVIOUS
    <2>2. /\ s \in Sess /\ s \notin detached
          /\ \A k \in Conn : cached[k] # s
          /\ \A d \in Call : /\ s # h[d] /\ s # tried[d]
                             /\ s \notin todo[d] /\ s \notin closing[d]
      BY <2>1
    <2>3. ASSUME NEW d \in Call, pc'[d] \in {"extra", "store"}, d # c
          PROVE  h'[d] = h[d] /\ pc[d] \in {"extra", "store"} /\ h[d] # s
      BY <2>1, <2>2, <2>3
    <2>4. h'[c] = s
      BY <2>1
    <2>5. \A d \in Call : d # c => h'[d] = h[d]
      BY <2>1
    <2> QED  BY <2>1, <2>2, <2>3, <2>4, <2>5 DEF Private
  <1>4. InMap'
    BY DEF Locals, Private, InMap, HasSession, Request, Sess
  <1>5. FailedStaysOut'
    BY DEF Locals, Private, InMap, FailedStaysOut, HasSession, Request, Sess
  <1>6. UseIsCounted'
    <2>1. \A d \in Call : (Uses(d)' <=> Uses(d)) /\ (Uses(d) => h'[d] = h[d])
      BY DEF Uses, Retries, Locals, Request, Modes
    <2> QED  BY <2>1, UsesKept
  <1>7. RoomKept'
    <2>1. Taken' \subseteq Taken
      BY DEF Taken, Pending, CachedConns, Locals, InMap, Request, Sess
    <2> QED  BY <2>1, RoomStaysKept
  <1> QED  BY <1>1, <1>2, <1>3, <1>4, <1>5, <1>6, <1>7

(* The guard counts the use before the call waits for the session. *)
LEMMA BeginUseKeeps ==
    ASSUME IInv, NEW c \in Call, BeginUse(c)
    PROVE  IInv'
  <1> USE PoolAssumption DEF IInv, TypeOK, BeginUse, At, GoTo, background, counters
  <1>1. TypeOK'
    BY DEF PoolSteps, Locals, HasSession
  <1>2. Locals'
    BY DEF Locals, HasSession, Request, Sess
  <1>3. Private'
    BY DEF Locals, Private, InMap, HasSession, Request, Sess
  <1>4. InMap'
    BY DEF Locals, Private, InMap, HasSession, Request, Sess
  <1>5. FailedStaysOut'
    BY DEF Locals, Private, InMap, FailedStaysOut, HasSession, Request, Sess
  <1>6. UseIsCounted'
    <2>1. h[c] \in Sess /\ ~ Uses(c) /\ Uses(c)'
      BY DEF Uses, Locals, HasSession
    <2>2. \A d \in Call \ {c} : Uses(d)' <=> Uses(d)
      BY DEF Uses
    <2> QED  BY <2>1, <2>2, UseBegins
  <1>7. RoomKept'
    <2>1. Taken' \subseteq Taken
      BY DEF Taken, Pending, CachedConns, Locals, InMap, Request, Sess
    <2> QED  BY <2>1, RoomStaysKept
  <1> QED  BY <1>1, <1>2, <1>3, <1>4, <1>5, <1>6, <1>7

(* A session has one owner. *)
LEMMA LockSessionKeeps ==
    ASSUME IInv, NEW c \in Call, LockSession(c)
    PROVE  IInv'
  <1> USE PoolAssumption DEF IInv, TypeOK, LockSession, GoTo, background, counters
  <1>1. TypeOK'
    BY DEF PoolSteps, Locals
  <1>2. Locals'
    <2>1. h[c] \in Sess /\ owner'[h[c]] = c
      BY DEF Locals, HasSession
    <2>2. \A d \in Call : d # c /\ pc[d] = "run" => h[d] # h[c]
      BY DEF Locals
    <2>3. \A d \in Call : d # c /\ pc[d] = "run" => owner'[h[d]] = d
      BY <2>2 DEF Locals, HasSession
    <2> QED  BY <2>1, <2>3 DEF Locals, HasSession
  <1>3. Private'
    BY DEF Locals, Private, InMap, HasSession, Request, Sess
  <1>4. InMap'
    BY DEF Locals, Private, InMap, HasSession, Request, Sess
  <1>5. FailedStaysOut'
    BY DEF Locals, Private, InMap, FailedStaysOut, HasSession, Request, Sess
  <1>6. UseIsCounted'
    <2>1. \A d \in Call : (Uses(d)' <=> Uses(d)) /\ (Uses(d) => h'[d] = h[d])
      BY DEF Uses, Retries, Locals, Request, Modes
    <2> QED  BY <2>1, UsesKept
  <1>7. RoomKept'
    <2>1. Taken' \subseteq Taken
      BY DEF Taken, Pending, CachedConns, Locals, InMap, Request, Sess
    <2> QED  BY <2>1, RoomStaysKept
  <1> QED  BY <1>1, <1>2, <1>3, <1>4, <1>5, <1>6, <1>7

(* What the idle task removes is left to be closed. *)
LEMMA PruneDueKeeps ==
    ASSUME IInv, NEW s \in Sess, PruneDue(s)
    PROVE  IInv'
  <1> USE PoolAssumption DEF IInv, TypeOK, PruneDue, Removes, Cached, sessions,
      locals, counters
  <1>1. TypeOK'
    <2>1. detached' \in SUBSET Sess /\ cached' \in [Conn -> Sess \cup {None}]
      BY DEF Sess
    <2> QED  BY <2>1
  <1>2. Locals'
    BY DEF Locals, HasSession, Request, Sess
  <1>3. Private'
    BY DEF Locals, Private, InMap, HasSession, Request, Sess
  <1>4. InMap'
    BY DEF Locals, Private, InMap, HasSession, Request, Sess
  <1>5. FailedStaysOut'
    BY DEF Locals, Private, InMap, FailedStaysOut, HasSession, Request, Sess
  <1>6. UseIsCounted'
    <2>1. \A d \in Call : (Uses(d)' <=> Uses(d)) /\ (Uses(d) => h'[d] = h[d])
      BY DEF Uses, Retries, Locals, Request, Modes
    <2> QED  BY <2>1, UsesKept
  <1>7. RoomKept'
    <2>1. Taken' \subseteq Taken
      BY DEF Taken, Pending, CachedConns, Locals, InMap, Request, Sess
    <2> QED  BY <2>1, RoomStaysKept
  <1> QED  BY <1>1, <1>2, <1>3, <1>4, <1>5, <1>6, <1>7

(* The session leaves the map for the background. *)
LEMMA InvalidateConnectionKeeps ==
    ASSUME IInv, NEW k \in Conn, InvalidateConnection(k)
    PROVE  IInv'
  <1> USE PoolAssumption DEF IInv, TypeOK, InvalidateConnection, Removes, Event,
      sessions, locals
  <1>1. TypeOK'
    BY DEF PoolSteps, Locals
  <1>2. Locals'
    BY DEF Locals, HasSession, Request, Sess
  <1>3. Private'
    BY DEF Locals, Private, InMap, HasSession, Request, Sess
  <1>4. InMap'
    BY DEF Locals, Private, InMap, HasSession, Request, Sess
  <1>5. FailedStaysOut'
    BY DEF Locals, Private, InMap, FailedStaysOut, HasSession, Request, Sess
  <1>6. UseIsCounted'
    <2>1. \A d \in Call : (Uses(d)' <=> Uses(d)) /\ (Uses(d) => h'[d] = h[d])
      BY DEF Uses, Retries, Locals, Request, Modes
    <2> QED  BY <2>1, UsesKept
  <1>7. RoomKept'
    <2>1. Taken' \subseteq Taken
      BY DEF Taken, Pending, CachedConns, Locals, InMap, Request, Sess
    <2> QED  BY <2>1, RoomStaysKept
  <1> QED  BY <1>1, <1>2, <1>3, <1>4, <1>5, <1>6, <1>7

(* What the background closes is neither in the map nor private. *)
LEMMA CloseDetachedKeeps ==
    ASSUME IInv, NEW s \in Sess, CloseDetached(s)
    PROVE  IInv'
  <1> USE PoolAssumption DEF IInv, TypeOK, CloseDetached, locals, counters
  <1>1. TypeOK'
    BY DEF PoolSteps, Locals
  <1>2. Locals'
    BY DEF Locals, HasSession, Request, Sess
  <1>3. Private'
    BY DEF Locals, Private, InMap, HasSession, Request, Sess
  <1>4. InMap'
    BY DEF Locals, Private, InMap, HasSession, Request, Sess
  <1>5. FailedStaysOut'
    BY DEF Locals, Private, InMap, FailedStaysOut, HasSession, Request, Sess
  <1>6. UseIsCounted'
    <2>1. \A d \in Call : (Uses(d)' <=> Uses(d)) /\ (Uses(d) => h'[d] = h[d])
      BY DEF Uses, Retries, Locals, Request, Modes
    <2> QED  BY <2>1, UsesKept
  <1>7. RoomKept'
    <2>1. Taken' \subseteq Taken
      BY DEF Taken, Pending, CachedConns, Locals, InMap, Request, Sess
    <2> QED  BY <2>1, RoomStaysKept
  <1> QED  BY <1>1, <1>2, <1>3, <1>4, <1>5, <1>6, <1>7

(* Time passes for a session. *)
LEMMA IdleTimeoutKeeps ==
    ASSUME IInv, NEW s \in Sess, IdleTimeout(s)
    PROVE  IInv'
  <1> USE PoolAssumption DEF IInv, TypeOK, IdleTimeout, Event, background, locals
  <1>1. TypeOK'
    BY DEF PoolSteps, Locals
  <1>2. Locals'
    BY DEF Locals, HasSession, Request, Sess
  <1>3. Private'
    BY DEF Locals, Private, InMap, HasSession, Request, Sess
  <1>4. InMap'
    BY DEF Locals, Private, InMap, HasSession, Request, Sess
  <1>5. FailedStaysOut'
    BY DEF Locals, Private, InMap, FailedStaysOut, HasSession, Request, Sess
  <1>6. UseIsCounted'
    <2>1. \A d \in Call : (Uses(d)' <=> Uses(d)) /\ (Uses(d) => h'[d] = h[d])
      BY DEF Uses, Retries, Locals, Request, Modes
    <2> QED  BY <2>1, UsesKept
  <1>7. RoomKept'
    <2>1. Taken' \subseteq Taken
      BY DEF Taken, Pending, CachedConns, Locals, InMap, Request, Sess
    <2> QED  BY <2>1, RoomStaysKept
  <1> QED  BY <1>1, <1>2, <1>3, <1>4, <1>5, <1>6, <1>7

(* The idle task notes a session. *)
LEMMA PruneWakesKeeps ==
    ASSUME IInv, NEW s \in Sess, PruneWakes(s)
    PROVE  IInv'
  <1> USE PoolAssumption DEF IInv, TypeOK, PruneWakes, sessions, locals, counters
  <1>1. TypeOK'
    BY DEF PoolSteps, Locals
  <1>2. Locals'
    BY DEF Locals, HasSession, Request, Sess
  <1>3. Private'
    BY DEF Locals, Private, InMap, HasSession, Request, Sess
  <1>4. InMap'
    BY DEF Locals, Private, InMap, HasSession, Request, Sess
  <1>5. FailedStaysOut'
    BY DEF Locals, Private, InMap, FailedStaysOut, HasSession, Request, Sess
  <1>6. UseIsCounted'
    <2>1. \A d \in Call : (Uses(d)' <=> Uses(d)) /\ (Uses(d) => h'[d] = h[d])
      BY DEF Uses, Retries, Locals, Request, Modes
    <2> QED  BY <2>1, UsesKept
  <1>7. RoomKept'
    <2>1. Taken' \subseteq Taken
      BY DEF Taken, Pending, CachedConns, Locals, InMap, Request, Sess
    <2> QED  BY <2>1, RoomStaysKept
  <1> QED  BY <1>1, <1>2, <1>3, <1>4, <1>5, <1>6, <1>7


-----------------------------------------------------------------------------
(* Making room and storing. *)

(* After prune_extra_sessions the other connections of the map leave room    *)
(* for one; each of the other calls that are past this step may add one.     *)
LEMMA PruneExtraKeeps ==
    ASSUME IInv, NEW c \in Call, PruneExtra(c)
    PROVE  IInv'
  <1> USE PoolAssumption DEF IInv, TypeOK
  <1> DEFINE own == req[c].conn
  <1>0. req[c] \in Request /\ own \in Conn /\ h[c] \in Sess
    BY DEF PruneExtra, At, Locals, HasSession, Request
  <1>1. PICK out \in SUBSET (CachedConns \ {own}) :
           /\ cached' = [k \in Conn |-> IF k \in out THEN None ELSE cached[k]]
           /\ closing' = [closing EXCEPT ![c] = {cached[k] : k \in out}]
           /\ \/ out = {} /\ Cardinality(CachedConns) < MaxCached
              \/ Cardinality(out) = Cardinality(CachedConns) - (MaxCached - 1)
              \/ out = CachedConns \ {own}
    <2>1. CASE Cardinality(CachedConns) < MaxCached
      <3>1. UNCHANGED <<cached, closing>> /\ closing[c] = {}
        BY <2>1 DEF PruneExtra, At
      <3>2. cached' = [k \in Conn |-> IF k \in {} THEN None ELSE cached[k]]
        BY <3>1
      <3>3. closing' = [closing EXCEPT ![c] = {cached[k] : k \in {}}]
        BY <3>1
      <3> QED  BY <2>1, <3>2, <3>3
    <2>2. CASE ~ Cardinality(CachedConns) < MaxCached
      BY <2>2 DEF PruneExtra
    <2> QED  BY <2>1, <2>2
  <1>2. /\ pc[c] = "extra" /\ pc' = [pc EXCEPT ![c] = "store"]
        /\ UNCHANGED <<sessions, background, req, h, tried, todo, counters>>
    BY DEF PruneExtra, At, GoTo
  <1> HIDE DEF own
  <1>3. \A k \in out : k \in Conn /\ cached[k] \in Sess /\ cached[k].conn = k
    BY <1>1 DEF CachedConns, InMap
  <1>4. TypeOK'
    BY <1>1, <1>2, <1>3 DEF PoolSteps, sessions, background, counters
  <1>5. Locals'
    BY <1>1, <1>2 DEF Locals, HasSession, sessions, background, counters
  <1>6. \A k \in Conn : cached'[k] # None => cached'[k] = cached[k] /\ k \notin out
    BY <1>1
  <1>7. \A d \in Call : closing'[d] \subseteq closing[d] \cup {cached[k] : k \in out}
    BY <1>1
  <1>8. Private'
    <2>1. \A d \in Call : pc'[d] \in {"extra", "store"} <=> pc[d] \in {"extra", "store"}
      BY <1>2
    <2>2. \A d \in Call : pc[d] \in {"extra", "store"} => \A k \in Conn : cached'[k] # h[d]
      BY <1>6, <1>1 DEF Private, Locals, HasSession
    <2>3. \A d, e \in Call : pc[d] \in {"extra", "store"} => h[d] \notin closing'[e]
      BY <1>3, <1>7 DEF Private
    <2> QED  BY <1>2, <2>1, <2>2, <2>3 DEF Private, sessions, background, counters
  <1>9. InMap'
    <2>1. \A k \in Conn, d \in Call : cached'[k] # None => cached'[k] \notin closing'[d]
      BY <1>3, <1>6, <1>7 DEF InMap
    <2> QED  BY <1>2, <1>6, <2>1 DEF InMap, sessions, background, counters
  <1>10. FailedStaysOut'
    <2>1. \A k \in Conn : cached'[k] \in {cached[k], None}
      BY <1>6
    <2>2. \A d \in Call : pc'[d] = "end" => h[d] \in Sess /\ pc[d] = "end"
      BY <1>2 DEF Locals, HasSession
    <2> QED  BY <1>2, <2>1, <2>2 DEF FailedStaysOut
  <1>11. UseIsCounted'
    <2>1. \A d \in Call : (Uses(d)' <=> Uses(d)) /\ (Uses(d) => h'[d] = h[d])
      BY <1>2 DEF Uses
    <2> QED  BY <1>2, <2>1, UsesKept DEF sessions
  <1>12. RoomKept'
    <2> DEFINE rest == CachedConns \ out
               others == {req[d].conn : d \in {d \in Call \ {c} : pc[d] = "store"}}
               D == {d \in Call \ {c} : pc[d] = "store"}
    <2>1. IsFiniteSet(CachedConns) /\ Cardinality(CachedConns) \in Nat
      BY TakenIsFinite, FS_CardinalityType
    <2>2. /\ IsFiniteSet(rest \ {own})
          /\ Cardinality(rest \ {own}) \in Nat /\ Cardinality(rest \ {own}) <= MaxCached - 1
      <3>1. IsFiniteSet(rest) /\ IsFiniteSet(rest \ {own}) /\ IsFiniteSet(out)
        BY <1>1, <2>1, FS_Subset
      <3>2. /\ Cardinality(rest) \in Nat /\ Cardinality(rest \ {own}) \in Nat
            /\ Cardinality(out) \in Nat
            /\ Cardinality(rest \ {own}) <= Cardinality(rest)
        BY <3>1, FS_CardinalityType, FS_Subset
      <3>6. Cardinality(rest) <= MaxCached - 1 => Cardinality(rest \ {own}) <= MaxCached - 1
        <4> HIDE DEF rest
        <4> QED  BY <3>2
      <3>3. CASE out = {} /\ Cardinality(CachedConns) < MaxCached
        <4>1. Cardinality(rest) = Cardinality(CachedConns)
          BY <3>3
        <4>2. Cardinality(rest) <= MaxCached - 1
          <5> HIDE DEF rest
          <5> QED  BY <4>1, <3>3, <2>1
        <4> QED  BY <3>1, <3>2, <3>6, <4>2
      <3>4. CASE Cardinality(out) = Cardinality(CachedConns) - (MaxCached - 1)
        <4>1. CachedConns \cap out = out
          BY <1>1
        <4>2. Cardinality(rest) = Cardinality(CachedConns) - Cardinality(out)
          BY <4>1, <2>1, FS_Difference
        <4>3. Cardinality(rest) <= MaxCached - 1
          <5> HIDE DEF rest
          <5> QED  BY <3>2, <3>4, <4>2, <2>1
        <4> QED  BY <3>1, <3>2, <3>6, <4>3
      <3>5. CASE out = CachedConns \ {own}
        <4>1. rest \ {own} = {}
          BY <3>5
        <4> QED  BY <4>1, <3>1, <3>2, FS_EmptySet
      <3> QED  BY <1>1, <3>3, <3>4, <3>5
    <2>3. IsFiniteSet(others) /\ Cardinality(others) \in Nat
          /\ Cardinality(others) <= Cardinality(Call) - 1 /\ Cardinality(Call) \in Nat
      <3>1. /\ IsFiniteSet(others) /\ Cardinality(others) <= Cardinality(D)
        BY ConnectionsOfCalls
      <3>2. IsFiniteSet(Call \ {c}) /\ Cardinality(Call \ {c}) = Cardinality(Call) - 1
        BY FS_RemoveElement
      <3>3. IsFiniteSet(D) /\ Cardinality(D) <= Cardinality(Call \ {c})
        BY <3>2, FS_Subset
      <3> QED  BY <3>1, <3>2, <3>3, FS_CardinalityType
    <2>4. Taken' \subseteq (rest \ {own}) \cup ({own} \cup others)
      <3>1. CachedConns' \subseteq rest
        BY <1>6 DEF CachedConns
      <3>2. Pending' \subseteq {own} \cup others
        BY <1>2 DEF Pending, own
      <3> QED  BY <3>1, <3>2 DEF Taken
    <2> HIDE DEF rest, others, D
    <2>5. /\ IsFiniteSet({own} \cup others)
          /\ Cardinality({own} \cup others) <= Cardinality(Call)
          /\ Cardinality({own} \cup others) \in Nat
      <3>1. /\ IsFiniteSet(others \cup {own})
            /\ Cardinality(others \cup {own}) \in {Cardinality(others), Cardinality(others) + 1}
        BY <2>3, FS_AddElement
      <3>2. others \cup {own} = {own} \cup others
        OBVIOUS
      <3>3. Cardinality(others \cup {own}) <= Cardinality(Call)
        BY <2>3, <3>1
      <3> QED  BY <3>1, <3>2, <3>3, FS_CardinalityType
    <2>6. LET all == (rest \ {own}) \cup ({own} \cup others)
          IN  IsFiniteSet(all) /\ Cardinality(all) <= MaxCached - 1 + Cardinality(Call)
      <3> DEFINE a == rest \ {own}
                 b == {own} \cup others
      <3>1. /\ IsFiniteSet(a \cup b)
            /\ Cardinality(a \cup b) = Cardinality(a) + Cardinality(b) - Cardinality(a \cap b)
        BY <2>2, <2>5, FS_Union
      <3>2. IsFiniteSet(a \cap b) /\ Cardinality(a \cap b) \in Nat
        BY <2>2, FS_Subset, FS_CardinalityType
      <3>3. /\ Cardinality(a) \in Nat /\ Cardinality(a) <= MaxCached - 1
            /\ Cardinality(b) \in Nat /\ Cardinality(b) <= Cardinality(Call)
        BY <2>2, <2>5
      <3> HIDE DEF a, b
      <3>4. Cardinality(a \cup b) <= MaxCached - 1 + Cardinality(Call)
        BY <3>1, <3>2, <3>3, <2>3
      <3> QED  BY <3>1, <3>4 DEF a, b
    <2>7. /\ Cardinality(Taken') \in Nat
          /\ Cardinality(Taken') <= Cardinality((rest \ {own}) \cup ({own} \cup others))
      BY <2>4, <2>6, FS_Subset, FS_CardinalityType
    <2>8. Cardinality((rest \ {own}) \cup ({own} \cup others)) \in Nat
      BY <2>6, FS_CardinalityType
    <2> QED  BY <2>3, <2>6, <2>7, <2>8 DEF RoomKept
  <1> QED  BY <1>4, <1>5, <1>8, <1>9, <1>10, <1>11, <1>12

(* The session that another call stored meanwhile stays if it will do, the  *)
(* new one goes; else the other way round.                                  *)
LEMMA StoreKeeps ==
    ASSUME IInv, NEW c \in Call, Store(c)
    PROVE  IInv'
  <1> USE PoolAssumption DEF IInv, TypeOK
  <1> DEFINE own == req[c].conn
             old == cached[own]
  <1>0. /\ req[c] \in Request /\ own \in Conn /\ h[c] \in Sess
        /\ h[c].conn = own /\ h[c].sig = req[c].sig
        /\ closing[c] = {} /\ pc[c] = "store"
    BY DEF Store, At, Locals, HasSession, Request
  <1>1. /\ pc' = [pc EXCEPT ![c] = "begin"]
        /\ UNCHANGED <<open, inFlight, owner, background, req, tried, todo, counters>>
    BY DEF Store, GoTo
  <1>2. /\ old # h[c] /\ h[c] \in open /\ h[c] \notin detached
        /\ \A k \in Conn : cached[k] # h[c]
        /\ \A d \in Call : /\ h[c] # tried[d] /\ h[c] \notin closing[d]
                           /\ d # c => h[c] # h[d]
    BY <1>0 DEF Private
  <1>3. UseIsCounted'
    <2>1. \A d \in Call : Uses(d) => h'[d] = h[d]
      BY <1>0 DEF Store, Uses
    <2>2. \A d \in Call : Uses(d)' <=> Uses(d)
      BY <1>0, <1>1 DEF Uses
    <2> QED  BY <1>1, <2>1, <2>2, UsesKept
  <1>4. CASE old # None /\ old.sig = req[c].sig
    <2>1. /\ h' = [h EXCEPT ![c] = old]
          /\ closing' = [closing EXCEPT ![c] = {h[c]}]
          /\ UNCHANGED <<cached, fresh>>
      BY <1>4 DEF Store
    <2>2. /\ old \in Sess /\ old.conn = own /\ old # tried[c]
      BY <1>0, <1>4 DEF InMap, FailedStaysOut
    <2> HIDE DEF own, old
    <2>3. TypeOK'
      BY <1>0, <1>1, <2>1, <2>2 DEF PoolSteps, background, counters
    <2>4. Locals'
      BY <1>0, <1>1, <2>1, <2>2, <1>4 DEF Locals, HasSession, own, old
    <2>5. Private'
      <3>1. ASSUME NEW d \in Call, pc'[d] \in {"extra", "store"}
            PROVE  d # c /\ pc[d] \in {"extra", "store"} /\ h'[d] = h[d] /\ h[d] # old /\ h[d] # h[c]
        BY <1>0, <1>1, <1>2, <2>1, <3>1 DEF Private, old
      <3>2. \A d \in Call : closing'[d] \subseteq closing[d] \cup {h[c]}
        BY <2>1
      <3>3. \A d \in Call : h'[d] \in {h[d], old}
        BY <2>1
      <3> QED  BY <1>1, <2>1, <3>1, <3>2, <3>3 DEF Private, background
    <2>6. InMap'
      BY <1>1, <1>2, <2>1 DEF InMap, background
    <2>7. FailedStaysOut'
      BY <1>1, <2>1 DEF FailedStaysOut
    <2>8. RoomKept'
      <3>1. Taken' \subseteq Taken
        BY <1>1, <2>1 DEF Taken, Pending, CachedConns
      <3> QED  BY <3>1, RoomStaysKept
    <2> QED  BY <1>3, <2>3, <2>4, <2>5, <2>6, <2>7, <2>8
  <1>5. CASE ~ (old # None /\ old.sig = req[c].sig)
    <2>1. /\ cached' = [cached EXCEPT ![own] = h[c]]
          /\ fresh' = fresh \cup {h[c]}
          /\ closing' = [closing EXCEPT ![c] = {old} \ {None}]
          /\ UNCHANGED h
      BY <1>5 DEF Store
    <2>2. \A k \in Conn \ {own} : cached'[k] = cached[k] /\ (cached[k] # None => cached[k] # old)
      BY <1>0, <2>1 DEF InMap
    <2>3. cached'[own] = h[c]
      BY <1>0, <2>1
    <2>4. \A d \in Call : closing'[d] \subseteq closing[d] \cup ({old} \ {None})
      BY <1>0, <2>1
    <2>5. old \in Sess \cup {None}
      BY <1>0
    <2> HIDE DEF own, old
    <2>6. TypeOK'
      BY <1>0, <1>1, <2>1, <2>5 DEF PoolSteps, background, counters
    <2>7. Locals'
      BY <1>0, <1>1, <2>1 DEF Locals, HasSession
    <2>8. Private'
      <3>1. ASSUME NEW d \in Call, pc'[d] \in {"extra", "store"}
            PROVE  /\ d # c /\ pc[d] \in {"extra", "store"} /\ h[d] # h[c]
                   /\ h[d] # old
        BY <1>0, <1>1, <1>2, <3>1 DEF Private, old
      <3>2. \A k \in Conn : cached'[k] \in {cached[k], h[c]}
        BY <2>2, <2>3
      <3> QED  BY <1>1, <2>1, <2>4, <3>1, <3>2 DEF Private, background
    <2>9. InMap'
      BY <1>0, <1>1, <1>2, <2>2, <2>3, <2>4, <2>1 DEF InMap, background
    <2>10. FailedStaysOut'
      <3>1. ASSUME NEW d \in Call, pc'[d] = "end"
            PROVE  d # c /\ pc[d] = "end"
        BY <1>1, <3>1
      <3> QED  BY <1>1, <1>2, <2>1, <2>2, <2>3, <3>1 DEF FailedStaysOut
    <2>11. RoomKept'
      <3>1. CachedConns' \subseteq CachedConns \cup {own}
        BY <2>2 DEF CachedConns
      <3>2. own \in Pending
        BY <1>0 DEF Pending, own
      <3>3. Pending' \subseteq Pending
        BY <1>1 DEF Pending
      <3> QED  BY <3>1, <3>2, <3>3, RoomStaysKept DEF Taken
    <2> QED  BY <1>3, <2>6, <2>7, <2>8, <2>9, <2>10, <2>11
  <1> QED  BY <1>4, <1>5

-----------------------------------------------------------------------------
(* The ends of commands and of calls. *)

(* run_exec returns: the use ends, unless it is that of a stream. *)
LEMMA CommandEndsKeeps ==
    ASSUME IInv, NEW c \in Call, CommandEnds(c),
           \/ GoTo(c, "mark")
           \/ GoTo(c, "failOut"),
           starts' \in 0..MaxStarts, events' \in 0..MaxEvents
    PROVE  IInv'
  <1> USE PoolAssumption DEF IInv, TypeOK, CommandEnds, GoTo, background
  <1>0. pc[c] = "run" /\ req[c] \in Request /\ h[c] \in Sess
    BY DEF Locals, HasSession
  <1>1. UseIsCounted' /\ inFlight' \in [Sess -> Nat]
    <2>1. \A d \in Call \ {c} : (Uses(d)' <=> Uses(d)) /\ h'[d] = h[d]
      BY DEF Uses
    <2>2. Uses(c)
      BY <1>0 DEF Uses
    <2>3. CASE req[c].mode = "stream"
      <3>1. Uses(c)' /\ UNCHANGED inFlight
        BY <1>0, <2>3 DEF Uses
      <3>2. \A d \in Call : (Uses(d)' <=> Uses(d)) /\ h'[d] = h[d]
        BY <2>1, <2>2, <3>1
      <3> QED  BY <3>1, <3>2, UsesKept
    <2>4. CASE req[c].mode # "stream"
      <3>1. ~ Uses(c)' /\ inFlight' = [inFlight EXCEPT ![h[c]] = @ - 1]
        BY <1>0, <2>4 DEF Uses
      <3> QED  BY <1>0, <2>1, <2>2, <3>1, UseEnds
    <2> QED  BY <2>3, <2>4
  <1>2. TypeOK'
    BY <1>0, <1>1 DEF PoolSteps
  <1>3. Locals'
    <2>1. \A d \in Call : d # c /\ pc[d] = "run" => owner'[h[d]] = owner[h[d]]
      BY <1>0 DEF Locals
    <2> QED  BY <1>0, <2>1 DEF Locals, HasSession
  <1>4. Private'
    BY DEF Private
  <1>5. InMap'
    BY DEF InMap
  <1>6. FailedStaysOut'
    BY DEF FailedStaysOut
  <1>7. RoomKept'
    <2>1. Taken' \subseteq Taken
      BY DEF Taken, Pending, CachedConns
    <2> QED  BY <2>1, RoomStaysKept
  <1> QED  BY <1>1, <1>2, <1>3, <1>4, <1>5, <1>6, <1>7

(* A call that returns or is dropped, and may take the session of its        *)
(* connection out of the map.                                               *)
Departs(c) ==
    /\ Release(c)
    /\ \/ /\ GoTo(c, "idle")
          /\ req' = [req EXCEPT ![c] = None] /\ h' = [h EXCEPT ![c] = None]
       \/ /\ pc[c] # "idle" /\ GoTo(c, "timedOut")
          /\ UNCHANGED <<req, h>>
    /\ UNCHANGED <<cached, detached>> \/ \E k \in Conn : Removes(k)
    /\ UNCHANGED <<open, due>>
    /\ fresh' \in SUBSET Sess
    /\ starts' \in 0..MaxStarts /\ events' \in 0..MaxEvents

LEMMA DepartsKeeps ==
    ASSUME IInv, NEW c \in Call, Departs(c)
    PROVE  IInv'
  <1> USE PoolAssumption DEF IInv, TypeOK, Departs, Release, GoTo
  <1>0. \A d \in Call \ {c} : /\ pc'[d] = pc[d] /\ req'[d] = req[d] /\ h'[d] = h[d]
                              /\ todo'[d] = todo[d] /\ closing'[d] = closing[d]
                              /\ tried'[d] = tried[d]
    OBVIOUS
  <1>1. /\ pc'[c] \in {"idle", "timedOut"} /\ todo'[c] = {} /\ closing'[c] = {} /\ tried'[c] = None
        /\ h'[c] \in {h[c], None}
        /\ pc'[c] # "idle" => req'[c] \in Request
    BY DEF Locals
  <1>2. UseIsCounted' /\ inFlight' \in [Sess -> Nat]
    <2>1. \A d \in Call \ {c} : (Uses(d)' <=> Uses(d)) /\ h'[d] = h[d]
      BY <1>0 DEF Uses
    <2>2. ~ Uses(c)'
      BY <1>1 DEF Uses
    <2>3. CASE Uses(c)
      <3>1. h[c] \in Sess
        BY <2>3 DEF Uses, Locals, HasSession
      <3> QED  BY <2>1, <2>2, <2>3, <3>1, UseEnds
    <2>4. CASE ~ Uses(c)
      <3>1. \A d \in Call : (Uses(d)' <=> Uses(d)) /\ (Uses(d) => h'[d] = h[d])
        BY <2>1, <2>2, <2>4
      <3> QED  BY <2>4, <3>1, UsesKept
    <2> QED  BY <2>3, <2>4
  <1> DEFINE OnlyRemoves ==
        /\ cached' \in [Conn -> Sess \cup {None}] /\ detached' \in SUBSET Sess
        /\ \A k \in Conn : /\ cached'[k] \in {cached[k], None}
                           /\ cached'[k] # None => cached'[k] \notin detached' \ detached
        /\ \A s \in detached' \ detached : \E k \in Conn : cached[k] = s
  <1>3. OnlyRemoves
    <2>1. CASE UNCHANGED <<cached, detached>>
      BY <2>1
    <2>2. ASSUME NEW k \in Conn, Removes(k)
          PROVE  OnlyRemoves
      BY <2>2 DEF Removes, InMap
    <2> QED  BY <2>1, <2>2
  <1>4. TypeOK'
    BY <1>2, <1>3 DEF PoolSteps
  <1>5. Locals'
    <2>1. \A d \in Call \ {c} : pc[d] = "run" => owner'[h[d]] = d
      BY DEF Locals, HasSession
    <2> QED  BY <1>0, <1>1, <2>1 DEF Locals, HasSession
  <1>6. Private'
    <2>1. ASSUME NEW d \in Call, pc'[d] \in {"extra", "store"}
          PROVE  /\ d # c /\ pc[d] \in {"extra", "store"} /\ h'[d] = h[d] /\ h[d] \in Sess
                 /\ h[d] \notin detached'
      BY <1>0, <1>1, <1>3, <2>1 DEF Private, Locals, HasSession
    <2> QED  BY <1>0, <1>1, <1>3, <2>1 DEF Private
  <1>7. InMap'
    BY <1>0, <1>1, <1>3 DEF InMap
  <1>8. FailedStaysOut'
    <2>1. \A d \in Call : pc'[d] = "end" => d # c /\ pc[d] = "end" /\ h[d] \in Sess
      BY <1>0, <1>1 DEF Locals, HasSession
    <2> QED  BY <1>0, <1>1, <1>3, <2>1 DEF FailedStaysOut
  <1>9. RoomKept'
    <2>1. Taken' \subseteq Taken
      BY <1>0, <1>1, <1>3 DEF Taken, Pending, CachedConns
    <2> QED  BY <2>1, RoomStaysKept
  <1> QED  BY <1>2, <1>4, <1>5, <1>6, <1>7, <1>8, <1>9

-----------------------------------------------------------------------------
(* The theorems. *)

(* Nothing is known before the first call. *)
LEMMA InitHolds ==
    ASSUME Init
    PROVE  IInv
  <1> USE PoolAssumption DEF Init
  <1>1. TypeOK
    BY DEF TypeOK, PoolSteps
  <1>2. Locals /\ Private /\ InMap /\ FailedStaysOut
    BY DEF Locals, Private, InMap, FailedStaysOut, HasSession
  <1>3. UseIsCounted
    <2>1. \A s \in Sess : {c \in Call : Uses(c) /\ h[c] = s} = {}
      BY DEF Uses
    <2> QED  BY <2>1, FS_EmptySet DEF UseIsCounted
  <1>4. RoomKept
    <2>1. Taken = {}
      BY DEF Taken, CachedConns, Pending
    <2>2. Cardinality(Taken) = 0
      BY <2>1, FS_EmptySet
    <2>3. Cardinality(Call) \in Nat
      BY FS_CardinalityType
    <2> QED  BY <2>2, <2>3 DEF RoomKept
  <1> QED  BY <1>1, <1>2, <1>3, <1>4 DEF IInv

(* Every step of a call keeps the invariant. *)
LEMMA StepKeeps ==
    ASSUME IInv, NEW c \in Call, Step(c)
    PROVE  IInv'
  <1>1. ASSUME NEW s \in todo[c], PruneIdle(c, s)  PROVE IInv'
    BY <1>1, PruneIdleKeeps
  <1>2. CASE PruneEnds(c) \/ Lookup(c) \/ Invalidate(c) \/ Connect(c)
    BY <1>2, PruneEndsKeeps, LookupKeeps, InvalidateKeeps, ConnectKeeps
  <1>3. CASE PruneExtra(c) \/ Store(c) \/ Close(c)
    BY <1>3, PruneExtraKeeps, StoreKeeps, CloseKeeps
  <1>4. CASE BeginUse(c) \/ LockSession(c)
    BY <1>4, BeginUseKeeps, LockSessionKeeps
  <1>5. CASE RunOk(c) \/ RunFails(c) \/ RunCancelled(c)
    <2>1. starts' \in 0..MaxStarts /\ events' \in 0..MaxEvents
      BY <1>5, PoolAssumption DEF RunOk, RunFails, RunCancelled, Event, counters,
          IInv, TypeOK
    <2>2. CommandEnds(c) /\ (GoTo(c, "mark") \/ GoTo(c, "failOut"))
      BY <1>5 DEF RunOk, RunFails, RunCancelled
    <2> QED  BY <2>1, <2>2, CommandEndsKeeps
  <1>6. CASE ConnectFails(c) \/ MarkUsed(c) \/ ReturnError(c) \/ TimeoutInvalidates(c)
    <2>1. req[c].conn \in Conn /\ (MarkUsed(c) => h[c] \in Sess)
      BY <1>6 DEF ConnectFails, MarkUsed, ReturnError, TimeoutInvalidates, At,
          IInv, Locals,
                  HasSession, Request
    <2>2. Departs(c)
      BY <1>6, <2>1 DEF ConnectFails, MarkUsed, ReturnError, TimeoutInvalidates,
          Return,
                        Departs, background, counters, IInv, TypeOK
    <2> QED  BY <2>2, DepartsKeeps
  <1> QED  BY <1>1, <1>2, <1>3, <1>4, <1>5, <1>6 DEF Step

LEMMA NextKeeps ==
    ASSUME IInv, [Next]_vars
    PROVE  IInv'
  <1>1. ASSUME NEW c \in Call, NEW r \in Asked, Start(c, r)  PROVE IInv'
    BY <1>1, StartKeeps, PoolAssumption
  <1>2. ASSUME NEW c \in Call, Step(c)  PROVE IInv'
    BY <1>2, StepKeeps
  <1>3. ASSUME NEW c \in Call, Timeout(c) \/ Cancel(c)  PROVE IInv'
    <2>1. Departs(c)
      BY <1>3, PoolAssumption
      DEF Timeout, Cancel, Return, Event, Departs, background, counters, IInv,
          TypeOK
    <2> QED  BY <2>1, DepartsKeeps
  <1>4. CASE Background
    BY <1>4, InvalidateConnectionKeeps, CloseDetachedKeeps, IdleTimeoutKeeps,
        PruneWakesKeeps,
       PruneDueKeeps DEF Background
  <1>5. CASE UNCHANGED vars
    <2>1. UNCHANGED <<cached, open, fresh, inFlight, owner, due, detached, pc, req, h, tried,
                      todo, closing, starts, events>>
      BY <1>5 DEF vars, sessions, background, locals, counters
    <2>2. TypeOK' /\ Locals' /\ Private' /\ InMap' /\ FailedStaysOut'
      BY <2>1 DEF IInv, TypeOK, Locals, Private, InMap, FailedStaysOut
    <2>3. UseIsCounted'
      BY <2>1 DEF IInv, UseIsCounted, Uses
    <2>4. RoomKept'
      BY <2>1 DEF IInv, RoomKept, Taken, CachedConns, Pending
    <2> QED  BY <2>2, <2>3, <2>4 DEF IInv
  <1> QED  BY <1>1, <1>2, <1>3, <1>4, <1>5 DEF Next

(* The pool (remote_exec_pool.rs) keeps its invariant for any number of     *)
(* connections, callers, timeouts, cancellations and failures.              *)
THEOREM Invariance == Spec => []IInv
  <1>1. Init => IInv
    BY InitHolds
  <1>2. IInv /\ [Next]_vars => IInv'
    BY NextKeeps
  <1> QED  BY <1>1, <1>2, PTL DEF Spec

(* The state of the pool stays in its types; in_flight never underflows.    *)
THEOREM TypeCorrect == Spec => []TypeOK
  <1>1. IInv => TypeOK
    BY DEF IInv
  <1> QED  BY <1>1, Invariance, PTL

(* What session_handle finds in the map is open and its own.                *)
THEOREM CachedAlwaysOpen == Spec => []CachedIsOpen
  <1>1. IInv => CachedIsOpen
    BY DEF IInv, InMap, CachedIsOpen, CachedConns
  <1> QED  BY <1>1, Invariance, PTL

(* No command runs on a session of another configuration.                   *)
THEOREM AlwaysOwnConfiguration == Spec => []RunsOnOwnConfiguration
  <1>1. IInv => RunsOnOwnConfiguration
    BY DEF IInv, Locals, RunsOnOwnConfiguration
  <1> QED  BY <1>1, Invariance, PTL

(* A retry never runs on the session that failed.                           *)
THEOREM RetryAlwaysUsesAnother == Spec => []RetryUsesAnother
  <1>1. IInv => RetryUsesAnother
    BY DEF IInv, Locals, RetryUsesAnother
  <1> QED  BY <1>1, Invariance, PTL

(* in_flight of a session is the number of commands that use it.            *)
THEOREM UseAlwaysCounted == Spec => []UseIsCounted
  <1>1. IInv => UseIsCounted
    BY DEF IInv
  <1> QED  BY <1>1, Invariance, PTL

(* max_cached_sessions is exceeded by at most the other callers.            *)
THEOREM CacheAlwaysBounded == Spec => []CacheBound
  <1>1. ASSUME IInv  PROVE CacheBound
    <2>1. IsFiniteSet(Taken) /\ CachedConns \subseteq Taken
      BY TakenIsFinite DEF Taken
    <2>2. Cardinality(CachedConns) <= Cardinality(Taken)
      BY <2>1, FS_Subset
    <2>3. /\ Cardinality(CachedConns) \in Nat /\ Cardinality(Taken) \in Nat
          /\ Cardinality(Call) \in Nat
      BY TakenIsFinite, PoolAssumption, FS_CardinalityType
    <2> QED  BY <1>1, <2>2, <2>3, PoolAssumption DEF IInv, RoomKept, CacheBound
  <1> QED  BY <1>1, Invariance, PTL

(* Only close_handle closes, and it waits for the owner of the session.     *)
THEOREM CommandKeepsItsSession == Spec => NeverClosedUnderCommand
  <1> DEFINE Kept == \A c \in Call : pc[c] = "run" /\ pc'[c] = "run" /\ h[c] \in open => h[c] \in open'
  <1>1. ASSUME IInv, [Next]_vars  PROVE Kept
    <2> SUFFICES ASSUME NEW c \in Call, pc[c] = "run", h[c] \in open, h[c] \notin open'
                 PROVE  FALSE
      OBVIOUS
    <2>1. owner[h[c]] = c
      BY <1>1 DEF IInv, Locals
    <2>2. \/ \E d \in Call : Close(d)
          \/ \E s \in Sess : CloseDetached(s)
      <3>1. ASSUME NEW d \in Call, Step(d), ~ Close(d)  PROVE open' \in {open} \cup {open \cup {s} : s \in Sess}
        BY <3>1 DEF Step, PruneIdle, PruneEnds, Lookup, Invalidate, Connect,
            ConnectFails,
               PruneExtra, Store, BeginUse, LockSession, RunOk, RunFails,
               RunCancelled, CommandEnds,
               MarkUsed, ReturnError, TimeoutInvalidates, FreeFor, sessions
      <3>2. ASSUME NEW d \in Call, (\E r \in Asked : Start(d, r)) \/ Timeout(d) \/ Cancel(d)
            PROVE  open' = open
        BY <3>2 DEF Start, Timeout, Cancel, sessions
      <3>3. CASE Background
        BY <3>3 DEF Background, InvalidateConnection, IdleTimeout, PruneWakes,
            PruneDue, sessions
      <3>4. CASE UNCHANGED vars
        BY <3>4 DEF vars, sessions
      <3> QED  BY <1>1, <3>1, <3>2, <3>3, <3>4 DEF Next
    <2>3. ~ (\E d \in Call : Close(d))
      BY <2>1, PoolAssumption DEF Close
    <2>4. ~ (\E s \in Sess : CloseDetached(s))
      BY <2>1, PoolAssumption DEF CloseDetached
    <2> QED  BY <2>2, <2>3, <2>4
  <1>2. [][Kept]_vars => NeverClosedUnderCommand
    BY PTL DEF NeverClosedUnderCommand
  <1> QED  BY <1>1, <1>2, Invariance, PTL DEF Spec

(* A call that reports a failure or a timeout leaves its session to nobody. *)
THEOREM FailedAlwaysOut == Spec => FailedIsOut
  <1> DEFINE LeftOut == \A c \in Call :
                 pc[c] \in {"end", "timedOut"} /\ pc'[c] = "idle" =>
                    cached'[req[c].conn] = None \/ cached'[req[c].conn] # h[c]
  <1>1. ASSUME IInv, [Next]_vars  PROVE LeftOut
    <2> SUFFICES ASSUME NEW c \in Call, pc[c] \in {"end", "timedOut"}, pc'[c] = "idle"
                 PROVE  cached'[req[c].conn] = None \/ cached'[req[c].conn] # h[c]
      OBVIOUS
    <2>0. req[c].conn \in Conn /\ cached \in [Conn -> Sess \cup {None}] /\ pc \in [Call -> PoolSteps]
      BY <1>1 DEF IInv, TypeOK, Locals, Request
    <2>1. CASE pc[c] = "end"
      <3>1. \A k \in Conn : cached[k] # h[c]
        BY <1>1, <2>1 DEF IInv, FailedStaysOut
      <3> DEFINE OnlyRemoves == UNCHANGED cached \/ \E k \in Conn : Removes(k)
      <3>2. OnlyRemoves
        <4>1. ASSUME NEW d \in Call, Step(d)  PROVE OnlyRemoves
          BY <1>1, <2>0, <2>1, <4>1
          DEF Step, PruneIdle, PruneEnds, Lookup, Invalidate, Connect,
              ConnectFails, Close, At, GoTo,
              PruneExtra, Store, BeginUse, LockSession, RunOk, RunFails,
              RunCancelled, CommandEnds,
              MarkUsed, ReturnError, TimeoutInvalidates, Return
        <4>2. ASSUME NEW d \in Call, (\E r \in Asked : Start(d, r)) \/ Timeout(d) \/ Cancel(d)
              PROVE  OnlyRemoves
          BY <4>2 DEF Start, Timeout, Cancel
        <4>3. CASE Background
          BY <4>3, <2>1, <2>0
          DEF Background, InvalidateConnection, CloseDetached, IdleTimeout,
              PruneWakes, PruneDue, locals
        <4>4. CASE UNCHANGED vars
          BY <4>4 DEF vars
        <4> QED  BY <1>1, <4>1, <4>2, <4>3, <4>4 DEF Next
      <3> QED  BY <2>0, <3>1, <3>2 DEF Removes
    <2>2. CASE pc[c] = "timedOut"
      <3>1. TimeoutInvalidates(c)
        <4>1. ASSUME NEW d \in Call, Step(d)  PROVE d = c /\ TimeoutInvalidates(c)
          BY <2>0, <2>2, <4>1
          DEF Step, PruneIdle, PruneEnds, Lookup, Invalidate, Connect,
              ConnectFails, Close, At, GoTo,
              PruneExtra, Store, BeginUse, LockSession, RunOk, RunFails,
              RunCancelled, CommandEnds,
              MarkUsed, ReturnError, TimeoutInvalidates, Return
        <4>2. ASSUME NEW d \in Call, (\E r \in Asked : Start(d, r)) \/ Timeout(d) \/ Cancel(d)
              PROVE  FALSE
          BY <2>0, <2>2, <4>2 DEF Start, Timeout, Cancel, Return, GoTo
        <4>3. ~ Background
          BY <2>2
          DEF Background, InvalidateConnection, CloseDetached, IdleTimeout,
              PruneWakes, PruneDue, locals
        <4>4. ~ UNCHANGED vars
          BY <2>2 DEF vars, locals
        <4> QED  BY <1>1, <4>1, <4>2, <4>3, <4>4 DEF Next
      <3> QED  BY <2>0, <3>1 DEF TimeoutInvalidates, Removes
    <2> QED  BY <2>1, <2>2
  <1>2. [][LeftOut]_vars => FailedIsOut
    BY PTL DEF FailedIsOut
  <1> QED  BY <1>1, <1>2, Invariance, PTL DEF Spec
=============================================================================
