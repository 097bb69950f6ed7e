------------------------------- MODULE Connections -------------------------------
(***************************************************************************)
(* The runner dialer and the Ziti manager of one process.  The loops share *)
(* the dialer's cache of gRPC connections, one per runner; a connection    *)
(* dials lazily, on a goroutine of gRPC, through the manager's OpenZiti    *)
(* identity; and the manager's renewal loop keeps that identity's lease.   *)
(* The retries of one call collapse to the attempt that decides: the ones  *)
(* before it answered Unavailable and changed nothing.                     *)
(***************************************************************************)
EXTENDS Naturals, FiniteSets

CONSTANTS
    Callers,        \* the loops that dial
    Runners,        \* runners
    MaxAttempts     \* dial attempts of a connection (retryMaxAttempts)

ASSUME ConnectionsAssumption ==
    /\ IsFiniteSet(Callers) /\ IsFiniteSet(Runners) /\ Runners # {}
    /\ MaxAttempts \in Nat \ {0}

VARIABLES
    identity,    \* the process's OpenZiti identity: none, live, or gone
    renewing,    \* RunLeaseRenewal runs
    lost,        \* IdentityLost was signalled
    cache,       \* cache[r]: the connection kept for runner r (conns), or 0
    conn,        \* conn[c]: the gRPC state of connection c
    attempt,     \* attempt[c]: the dial attempt c is at
    caller       \* caller[l]: what loop l does, for which runner, with which connection

connVars == <<identity, renewing, lost, cache, conn, attempt, caller>>

(* Connections are numbered, and a number is used again once nobody holds  *)
(* the closed connection: one per runner and one per caller is enough.     *)
Conns == 1..(Cardinality(Callers) + Cardinality(Runners))

Open == {"idle", "connecting", "auth", "ready", "failed"}
NoCall(l) == [pc |-> "none", runner |-> CHOOSE r \in Runners : TRUE, conn |-> 0]

ConnectionsTypeOK ==
    /\ identity \in {"none", "live", "gone"} /\ renewing \in BOOLEAN /\ lost \in BOOLEAN
    /\ cache \in [Runners -> {0} \cup Conns]
    /\ conn \in [Conns -> Open \cup {"closed"}]
    /\ attempt \in [Conns -> 0..MaxAttempts]
    /\ caller \in [Callers -> [pc : {"none", "dial", "store", "use", "done"}, runner : Runners,
                               conn : {0} \cup Conns]]

ConnectionsInit ==
    /\ identity = "none" /\ renewing = FALSE /\ lost = FALSE
    /\ cache = [r \in Runners |-> 0]
    /\ conn = [c \in Conns |-> "closed"] /\ attempt = [c \in Conns |-> 0]
    /\ caller = [l \in Callers |-> NoCall(l)]

(***************************************************************************)
(* The dialer: Dial is a look into the cache, gRPC's NewClient outside the *)
(* mutex, and the store, by which time another loop may have stored too.   *)
(***************************************************************************)
isBadState(c) == conn[c] \in {"failed", "closed"}

zitiVars == <<identity, renewing, lost>>

(* Seeded fault: a bad connection is taken out of the cache, not closed.   *)
Connection_NotClosed(l, r) ==
    LET c == cache[r]
        hit == c # 0 /\ ~isBadState(c)
    IN  /\ caller[l].pc = "none"
        /\ caller' = [caller EXCEPT ![l] = [pc |-> IF hit THEN "use" ELSE "dial", runner |-> r,
                                            conn |-> IF hit THEN c ELSE 0]]
        /\ cache' = IF hit THEN cache ELSE [cache EXCEPT ![r] = 0]
        /\ UNCHANGED <<zitiVars, conn, attempt>>

Connection(l, r) ==
    LET c == cache[r]
        hit == c # 0 /\ ~isBadState(c)
    IN  /\ caller[l].pc = "none"
        /\ caller' = [caller EXCEPT ![l] = [pc |-> IF hit THEN "use" ELSE "dial", runner |-> r,
                                            conn |-> IF hit THEN c ELSE 0]]
        /\ cache' = IF hit THEN cache ELSE [cache EXCEPT ![r] = 0]
        /\ conn' = IF hit \/ c = 0 THEN conn ELSE [conn EXCEPT ![c] = "closed"]
        /\ UNCHANGED <<zitiVars, attempt>>

Unheld(c) ==
    conn[c] = "closed" /\ \A l \in Callers : caller[l].conn # c

(* grpc.NewClient dials nothing yet.                                       *)
DialRunner(l) ==
    /\ caller[l].pc = "dial"
    /\ \E c \in Conns :
          /\ Unheld(c) /\ \A d \in Conns : Unheld(d) => c <= d
          /\ conn' = [conn EXCEPT ![c] = "idle"] /\ attempt' = [attempt EXCEPT ![c] = 0]
          /\ caller' = [caller EXCEPT ![l].pc = "store", ![l].conn = c]
    /\ UNCHANGED <<zitiVars, cache>>

(* Of two loops that dialled at once the second to store gives its own     *)
(* connection up for the first one's.                                      *)
StoreConnection(l) ==
    LET r == caller[l].runner
        own == caller[l].conn
        existing == cache[r]
        keep == existing # 0 /\ ~isBadState(existing)
        give == IF keep THEN own ELSE existing
    IN  /\ caller[l].pc = "store"
        /\ conn' = IF give = 0 THEN conn ELSE [conn EXCEPT ![give] = "closed"]
        /\ cache' = IF keep THEN cache ELSE [cache EXCEPT ![r] = own]
        /\ caller' = [caller EXCEPT ![l].pc = "use", ![l].conn = IF keep THEN existing ELSE own]
        /\ UNCHANGED <<zitiVars, attempt>>

(* The caller's RPC: the first one on an idle connection makes it dial;    *)
(* the RPC ends when the connection is ready or known not to be.           *)
Call(l) ==
    LET c == caller[l].conn
    IN  /\ caller[l].pc = "use"
        /\ \/ /\ conn[c] = "idle"
              /\ conn' = [conn EXCEPT ![c] = "connecting"]
              /\ attempt' = [attempt EXCEPT ![c] = 1]
              /\ UNCHANGED caller
           \/ /\ conn[c] \in {"ready", "failed", "closed"}
              /\ caller' = [caller EXCEPT ![l].pc = "done", ![l].conn = 0]
              /\ UNCHANGED <<conn, attempt>>
        /\ UNCHANGED <<zitiVars, cache>>

(***************************************************************************)
(* The connection's own goroutine: dialZitiWithRetry.                      *)
(***************************************************************************)
Retry(c, next) ==
    /\ conn' = [conn EXCEPT ![c] = IF attempt[c] < MaxAttempts THEN next ELSE "failed"]
    /\ attempt' = [attempt EXCEPT ![c] = IF attempt[c] < MaxAttempts THEN @ + 1 ELSE 0]

DialZiti(c) ==
    /\ conn[c] = "connecting"
    /\ \/ /\ identity = "live"
          /\ conn' = [conn EXCEPT ![c] = "ready"] /\ attempt' = [attempt EXCEPT ![c] = 0]
       \/ /\ identity = "gone"
          /\ conn' = [conn EXCEPT ![c] = "auth"] /\ UNCHANGED attempt
    /\ UNCHANGED <<zitiVars, cache, caller>>

(* No terminators, or the context of the dial ends: no further attempt.    *)
DialGivesUp(c) ==
    /\ conn[c] = "connecting"
    /\ conn' = [conn EXCEPT ![c] = "failed"] /\ attempt' = [attempt EXCEPT ![c] = 0]
    /\ UNCHANGED <<zitiVars, cache, caller>>

(* Any other error: the next attempt after the backoff, as long as there   *)
(* is one.  A session that expired is refused like a lost identity.        *)
DialFails(c) ==
    /\ conn[c] = "connecting"
    /\ \/ Retry(c, "connecting")
       \/ conn' = [conn EXCEPT ![c] = "auth"] /\ UNCHANGED attempt
    /\ UNCHANGED <<zitiVars, cache, caller>>

(* NotifyAuthFailure asks for a lease extension, and only NOT_FOUND means  *)
(* that the identity is lost.  The dial goes on either way, without wait.  *)
(* Seeded fault: every refused dial means that the identity is lost.       *)
NotifyAuthFailure_Trusting(c) ==
    /\ conn[c] = "auth"
    /\ lost' = TRUE
    /\ Retry(c, "connecting")
    /\ UNCHANGED <<identity, renewing, cache, caller>>

NotifyAuthFailure(c) ==
    /\ conn[c] = "auth"
    /\ lost' = (lost \/ identity = "gone")
    /\ Retry(c, "connecting")
    /\ UNCHANGED <<identity, renewing, cache, caller>>

(* Every attempt to extend the lease fails: logged, nothing is known.      *)
AuthUnknown(c) ==
    /\ conn[c] = "auth"
    /\ Retry(c, "connecting")
    /\ UNCHANGED <<zitiVars, cache, caller>>

(* gRPC: an established connection breaks, a failed one dials again later. *)
Disconnect(c) ==
    /\ conn[c] = "ready"
    /\ conn' = [conn EXCEPT ![c] = "idle"]
    /\ UNCHANGED <<zitiVars, cache, attempt, caller>>

Reconnect(c) ==
    /\ conn[c] = "failed" /\ identity = "live"
    /\ conn' = [conn EXCEPT ![c] = "ready"]
    /\ UNCHANGED <<zitiVars, cache, attempt, caller>>

(***************************************************************************)
(* The Ziti manager.                                                       *)
(***************************************************************************)
(* ziti-management garbage-collects the identity.                          *)
IdentityGone ==
    /\ identity = "live" /\ identity' = "gone"
    /\ UNCHANGED <<renewing, lost, cache, conn, attempt, caller>>

(* A renewal that is told NOT_FOUND ends the loop; one that extends the    *)
(* lease, or learns nothing, leaves everything as it is.  Seeded fault:    *)
(* the loop ends without a word.                                           *)
RenewLease_Silent ==
    /\ renewing /\ identity = "gone"
    /\ renewing' = FALSE
    /\ UNCHANGED <<identity, lost, cache, conn, attempt, caller>>

RenewLease ==
    /\ renewing /\ identity = "gone"
    /\ lost' = TRUE /\ renewing' = FALSE
    /\ UNCHANGED <<identity, cache, conn, attempt, caller>>

(* New enrols, under its timeout, before anything else runs.               *)
Enroll ==
    /\ identity' = "live" /\ renewing' = TRUE
    /\ UNCHANGED <<lost, cache, conn, attempt, caller>>

DropConnections ==
    /\ identity' = "none" /\ renewing' = FALSE /\ lost' = FALSE
    /\ cache' = [r \in Runners |-> 0]
    /\ conn' = [c \in Conns |-> "closed"] /\ attempt' = [c \in Conns |-> 0]
    /\ caller' = [l \in Callers |-> NoCall(l)]

(***************************************************************************)
(* Properties.                                                             *)
(***************************************************************************)
(* No connection leaks, whichever way two loops that dial the same runner  *)
(* interleave: one that is open is in the cache, or a loop has just dialled *)
(* it and is about to store it.  So the loops share one connection per     *)
(* runner, and any other a loop was handed is closed.                      *)
NoLeak ==
    \A c \in Conns : conn[c] \in Open =>
        \/ \E r \in Runners : cache[r] = c
        \/ \E l \in Callers : caller[l].pc = "store" /\ caller[l].conn = c

(* The process gives its identity up only if it really is gone.            *)
LossIsReal == lost => identity = "gone"
==================================================================================
