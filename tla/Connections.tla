----------------------------- MODULE Connections -----------------------------
(***************************************************************************)
(* The connection pool of the database (internal/db/db.go: at most         *)
(* MaxOpenConns connections, taken and waited for inside database/sql) and *)
(* the goroutines that use it.  Some of them iterate over the rows of one  *)
(* query, which holds a connection, and query again for every row, which   *)
(* takes a second one: Selector.Select, Repository.runItems, RecentItems   *)
(* and upcomingFromFacts for HTTP requests, amountConflictRelations for    *)
(* workers.                                                                *)
(*                                                                         *)
(* Nothing limits how long a caller waits for a connection; only a client  *)
(* that goes away takes its request out of the queue.                      *)
(***************************************************************************)
EXTENDS Integers, FiniteSets

CONSTANTS
  Conn,      \* the MaxOpenConns connections (8 in the code)
  Caller,    \* goroutines that use the database
  NoCaller,  \* the connection is in the pool
  Nesting,   \* callers that query inside the rows of another query
  Request,   \* callers whose client may go away (HTTP requests)
  MaxInner   \* bound: inner queries of one call

ASSUME ConnAssumption == IsFiniteSet(Conn) /\ Conn # {}
ASSUME CallerAssumption == /\ IsFiniteSet(Caller)
                           /\ Nesting \subseteq Caller
                           /\ Request \subseteq Caller
                           /\ NoCaller \notin Caller
ASSUME InnerAssumption == MaxInner \in Nat

VARIABLES
  owner,  \* who has each connection
  doing,  \* where each caller is
  inner   \* inner queries it has still to make

pool == <<owner, doing, inner>>

Idle == {c \in Conn : owner[c] = NoCaller}
Owned(p) == {c \in Conn : owner[c] = p}

PoolInit ==
  /\ owner = [c \in Conn |-> NoCaller]
  /\ doing = [p \in Caller |-> "away"]
  /\ inner = [p \in Caller |-> 0]

(* Some idle connection. *)
Take(p) == \E c \in Idle : owner' = [owner EXCEPT ![c] = p]

(* The two kinds of calls ask for their first connection. *)
Ask(p) ==
  /\ doing[p] = "away"
  /\ doing' = [doing EXCEPT ![p] = "waits"]
  /\ UNCHANGED <<owner, inner>>

(* QueryContext: its rows keep the connection until they are closed. *)
Query(p) ==
  /\ doing[p] = "waits"
  /\ Take(p)
  /\ doing' = [doing EXCEPT ![p] = "reads"]
  /\ \E n \in 0..MaxInner : /\ p \notin Nesting => n = 0
                            /\ inner' = [inner EXCEPT ![p] = n]

(* A query for the current row, while the rows are open. *)
AskInner(p) ==
  /\ doing[p] = "reads"
  /\ inner[p] > 0
  /\ doing' = [doing EXCEPT ![p] = "waits inside"]
  /\ UNCHANGED <<owner, inner>>

QueryInner(p) ==
  /\ doing[p] = "waits inside"
  /\ Take(p)
  /\ doing' = [doing EXCEPT ![p] = "reads inside"]
  /\ UNCHANGED inner

(* The rows of one query are closed: its connection goes back. *)
GiveBack(p) == \E c \in Owned(p) : owner' = [owner EXCEPT ![c] = NoCaller]

(* Mutant of CloseInner: the inner rows are not closed. *)
LeakInner(p) ==
  /\ doing[p] = "reads inside"
  /\ inner' = [inner EXCEPT ![p] = @ - 1]
  /\ doing' = [doing EXCEPT ![p] = "reads"]
  /\ UNCHANGED owner

(* The inner rows are closed; those of the outer query stay open. *)
CloseInner(p) ==
  /\ doing[p] = "reads inside"
  /\ GiveBack(p)
  /\ inner' = [inner EXCEPT ![p] = @ - 1]
  /\ doing' = [doing EXCEPT ![p] = "reads"]

(* The rows are exhausted or closed. *)
Close(p) ==
  /\ doing[p] = "reads"
  /\ inner[p] = 0
  /\ GiveBack(p)
  /\ doing' = [doing EXCEPT ![p] = "away"]
  /\ UNCHANGED inner

(* The client goes away: the context ends the wait, deferred Closes run. *)
Disconnect(p) ==
  /\ p \in Request
  /\ \/ doing[p] = "waits" /\ UNCHANGED owner
     \/ doing[p] = "waits inside" /\ GiveBack(p)
  /\ doing' = [doing EXCEPT ![p] = "away"]
  /\ inner' = [inner EXCEPT ![p] = 0]

Step(p) == Query(p) \/ AskInner(p) \/ QueryInner(p) \/ CloseInner(p) \/ Close(p)

PoolNext == \E p \in Caller : Ask(p) \/ Step(p) \/ Disconnect(p)

PoolSpec == PoolInit /\ [][PoolNext]_pool

(***************************************************************************)
(* A call that can go on does.  A connection that is given back goes to    *)
(* any of the waiting callers, so each of them is served if that happens   *)
(* again and again.  Nobody has to go away.                                *)
(***************************************************************************)
PoolFairness == \A p \in Caller : /\ SF_pool(Query(p)) /\ SF_pool(QueryInner(p))
                              /\ WF_pool(AskInner(p) \/ CloseInner(p) \/ Close(p))

PoolFairSpec == PoolSpec /\ PoolFairness

-----------------------------------------------------------------------------
(* Properties *)

(* A caller has exactly the connections of the queries it has open: none   *)
(* is lost to the pool on any path, also when its client goes away.        *)
Holds(place) ==
  CASE place \in {"reads", "waits inside"} -> 1
    [] place = "reads inside"              -> 2
    [] OTHER                               -> 0

NoneLeaks == \A p \in Caller : Cardinality(Owned(p)) = Holds(doing[p])

(***************************************************************************)
(* The pool can be stuck, every connection with a caller that waits for    *)
(* one more, as nothing in the code keeps nesting callers fewer than       *)
(* connections.  It takes that many of them: each connection is then with  *)
(* another nesting caller, and one that is not nested, or has its second   *)
(* connection, never adds to it.                                           *)
(***************************************************************************)
Stuck == \A c \in Conn : owner[c] # NoCaller /\ doing[owner[c]] = "waits inside"

StuckOnlyByNesting ==
  Stuck => /\ \A c \in Conn : owner[c] \in Nesting
           /\ \A c, d \in Conn : owner[c] = owner[d] => c = d

(***************************************************************************)
(* That is the only way a call is never served: it gets its connections    *)
(* and returns, or the pool is stuck for ever, no client going away.       *)
(***************************************************************************)
EveryCallReturns ==
  \A p \in Caller : (doing[p] = "waits" ~> doing[p] = "away") \/ <>[]Stuck

=============================================================================
