---------------------------- MODULE DatabaseProofs ----------------------------
(***************************************************************************)
(* Proofs about the package db.  First about the start of the program, for *)
(* any number of processes, releases, versions whose SQL may run twice,    *)
(* crashes and errors; then about the connection pool, for every number of *)
(* connections and callers and any nesting among them.                     *)
(***************************************************************************)
EXTENDS Migrations, Connections, FiniteSetTheorems, TLAPS

-----------------------------------------------------------------------------
(* Migrations *)

(* The schema is a prefix of the list of migrations, and the table says so. *)
Prefix ==
  /\ \A i \in 1..Len(schema) : schema[i] = i
  /\ recorded = 1..Len(schema)

(***************************************************************************)
(* What a process in Migrate knows is true, and stays true as versions are *)
(* only added: it has passed over no version that is missing.  In the      *)
(* transaction of a version it holds the lock, and at its end nobody has   *)
(* recorded that version.                                                  *)
(***************************************************************************)
Knows(p) ==
  /\ at[p] \in {"loop", "record", "commit"} =>
       known[p] \subseteq recorded /\ 1..(next[p] - 1) \subseteq recorded
  /\ at[p] \in {"record", "commit"} => writer = p
  /\ at[p] = "commit" => next[p] \notin recorded
  /\ at[p] = "serving" => 1..release[p] \subseteq recorded

IInv == TypeOK /\ Prefix /\ \A p \in Process : Knows(p)

-----------------------------------------------------------------------------
(* A step that changes the state of one process only, and takes no version *)
(* from the record, leaves what the others know true.                      *)
LEMMA OthersKnow ==
  ASSUME IInv, NEW p \in Process, NEW q \in Process, q # p,
         recorded \subseteq recorded',
         at'[q] = at[q], release'[q] = release[q], known'[q] = known[q],
         next'[q] = next[q],
         at[q] \in {"record", "commit"} => writer' = writer \/ writer # q,
         at[q] = "commit" => recorded' = recorded
  PROVE  Knows(q)'
BY SMTT(30) DEF IInv, Knows

LEMMA InitIInv == Init => IInv
<1>1. ASSUME Init PROVE TypeOK
  <2>1. schema \in Seq(Nat \ {0}) BY <1>1 DEF Init
  <2>2. 0 \in 0..MaxFaults BY FaultAssumption
  <2>3. /\ at \in [Process -> {"down", "failed", "create", "read", "loop", "record",
                               "commit", "serving"}]
        /\ release \in [Process -> Nat]
        /\ known \in [Process -> SUBSET (Nat \ {0})]
        /\ next \in [Process -> Nat \ {0}]
    BY <1>1 DEF Init
  <2>4. QED BY <1>1, <2>1, <2>2, <2>3 DEF Init, TypeOK
<1>2. ASSUME Init PROVE Prefix
  <2>1. Len(schema) = 0 BY <1>2 DEF Init
  <2>2. 1..Len(schema) = {} BY <2>1
  <2>3. QED BY <1>2, <2>2 DEF Init, Prefix
<1>3. ASSUME Init, NEW p \in Process PROVE Knows(p) BY <1>3 DEF Init, Knows
<1>4. QED BY <1>1, <1>2, <1>3 DEF IInv

(* The steps that leave the database alone. *)
LEMMA QuietSteps ==
  ASSUME IInv, NEW p \in Process,
         Start(p) \/ CreateTable(p) \/ appliedVersions(p) \/ Skip(p) \/ Serve(p)
  PROVE  IInv'
<1>1. CASE Start(p)
  <2>1. TypeOK' BY <1>1, ReleaseAssumption DEF IInv, TypeOK, Start, Go, database
  <2>2. Prefix' BY <1>1 DEF IInv, Prefix, Start, database
  <2>3. Knows(p)' BY <1>1 DEF IInv, TypeOK, Knows, Start, Go, database
  <2>4. ASSUME NEW q \in Process, q # p PROVE Knows(q)'
    BY <1>1, <2>4, OthersKnow DEF IInv, TypeOK, Start, Go, database
  <2>5. QED BY <2>1, <2>2, <2>3, <2>4 DEF IInv
<1>2. CASE CreateTable(p)
  <2>1. TypeOK' BY <1>2 DEF IInv, TypeOK, CreateTable, Go
  <2>2. Prefix' BY <1>2 DEF IInv, Prefix, CreateTable
  <2>3. Knows(p)' BY <1>2 DEF IInv, TypeOK, Knows, CreateTable, Go
  <2>4. ASSUME NEW q \in Process, q # p PROVE Knows(q)'
    BY <1>2, <2>4, OthersKnow DEF IInv, TypeOK, CreateTable, Go
  <2>5. QED BY <2>1, <2>2, <2>3, <2>4 DEF IInv
<1>3. CASE appliedVersions(p)
  <2>1. TypeOK' BY <1>3 DEF IInv, TypeOK, appliedVersions, Go, database
  <2>2. Prefix' BY <1>3 DEF IInv, Prefix, appliedVersions, database
  <2>3. Knows(p)' BY <1>3 DEF IInv, TypeOK, Knows, appliedVersions, Go, database
  <2>4. ASSUME NEW q \in Process, q # p PROVE Knows(q)'
    BY <1>3, <2>4, OthersKnow DEF IInv, TypeOK, appliedVersions, Go, database
  <2>5. QED BY <2>1, <2>2, <2>3, <2>4 DEF IInv
<1>4. CASE Skip(p)
  <2>1. TypeOK' BY <1>4 DEF IInv, TypeOK, Skip, database
  <2>2. Prefix' BY <1>4 DEF IInv, Prefix, Skip, database
  <2>3. Knows(p)' BY <1>4 DEF IInv, TypeOK, Knows, Skip, database
  <2>4. ASSUME NEW q \in Process, q # p PROVE Knows(q)'
    BY <1>4, <2>4, OthersKnow DEF IInv, TypeOK, Skip, database
  <2>5. QED BY <2>1, <2>2, <2>3, <2>4 DEF IInv
<1>5. CASE Serve(p)
  <2>1. TypeOK' BY <1>5 DEF IInv, TypeOK, Serve, Go, database
  <2>2. Prefix' BY <1>5 DEF IInv, Prefix, Serve, database
  <2>3. Knows(p)' BY <1>5 DEF IInv, TypeOK, Knows, Serve, Go, database
  <2>4. ASSUME NEW q \in Process, q # p PROVE Knows(q)'
    BY <1>5, <2>4, OthersKnow DEF IInv, TypeOK, Serve, Go, database
  <2>5. QED BY <2>1, <2>2, <2>3, <2>4 DEF IInv
<1>6. QED BY <1>1, <1>2, <1>3, <1>4, <1>5

(* The steps of a transaction before its commit, and those that end it. *)
LEMMA TransactionSteps ==
  ASSUME IInv, NEW p \in Process, Execute(p) \/ Record(p) \/ Err(p) \/ Stop(p)
  PROVE  IInv'
<1>1. CASE Execute(p)
  <2>1. TypeOK' BY <1>1 DEF IInv, TypeOK, Execute, Go, database
  <2>2. Prefix' BY <1>1 DEF IInv, Prefix, Execute, database
  <2>3. Knows(p)' BY <1>1 DEF IInv, TypeOK, Knows, Execute, Go, database
  <2>4. ASSUME NEW q \in Process, q # p PROVE Knows(q)'
    BY <1>1, <2>4, OthersKnow, ProcessAssumption DEF IInv, TypeOK, Execute, Go, database
  <2>5. QED BY <2>1, <2>2, <2>3, <2>4 DEF IInv
<1>2. CASE Record(p)
  <2>1. TypeOK' BY <1>2 DEF IInv, TypeOK, Record, Go, Unlock, database
  <2>2. Prefix' BY <1>2 DEF IInv, Prefix, Record, database
  <2>3. Knows(p)' BY <1>2 DEF IInv, TypeOK, Knows, Record, Go, database
  <2>4. ASSUME NEW q \in Process, q # p PROVE Knows(q)'
    BY <1>2, <2>4, OthersKnow DEF IInv, TypeOK, Record, Go, Unlock, database
  <2>5. QED BY <2>1, <2>2, <2>3, <2>4 DEF IInv
<1>3. CASE Err(p)
  <2>1. TypeOK'
    <3>1. faults' \in 0..MaxFaults BY <1>3, FaultAssumption DEF IInv, TypeOK, Err, Fault
    <3>2. QED BY <1>3, <3>1 DEF IInv, TypeOK, Err, Go, Unlock, database
  <2>2. Prefix' BY <1>3 DEF IInv, Prefix, Err, database
  <2>3. Knows(p)' BY <1>3 DEF IInv, TypeOK, Knows, Err, Go, database
  <2>4. ASSUME NEW q \in Process, q # p PROVE Knows(q)'
    BY <1>3, <2>4, OthersKnow DEF IInv, TypeOK, Err, Go, Unlock, database
  <2>5. QED BY <2>1, <2>2, <2>3, <2>4 DEF IInv
<1>4. CASE Stop(p)
  <2>1. TypeOK'
    <3>1. faults' \in 0..MaxFaults BY <1>4, FaultAssumption DEF IInv, TypeOK, Stop, Fault
    <3>2. QED BY <1>4, <3>1 DEF IInv, TypeOK, Stop, Go, Unlock, database
  <2>2. Prefix' BY <1>4 DEF IInv, Prefix, Stop, database
  <2>3. Knows(p)' BY <1>4 DEF IInv, TypeOK, Knows, Stop, Go, database
  <2>4. ASSUME NEW q \in Process, q # p PROVE Knows(q)'
    BY <1>4, <2>4, OthersKnow DEF IInv, TypeOK, Stop, Go, Unlock, database
  <2>5. QED BY <2>1, <2>2, <2>3, <2>4 DEF IInv
<1>5. QED BY <1>1, <1>2, <1>3, <1>4

(* The version that is committed is the first one that was missing. *)
LEMMA CommitsTheNext ==
  ASSUME IInv, NEW p \in Process, Commit(p)
  PROVE  next[p] = Len(schema) + 1
<1>1. /\ at[p] = "commit"
      /\ next[p] \in Nat \ {0}
      /\ Len(schema) \in Nat
  BY DEF Commit, IInv, TypeOK
<1>2. /\ 1..(next[p] - 1) \subseteq 1..Len(schema)
      /\ next[p] \notin 1..Len(schema)
  BY <1>1 DEF IInv, Knows, Prefix
<1>3. next[p] > Len(schema) BY <1>1, <1>2
<1>4. CASE next[p] = 1 BY <1>1, <1>3, <1>4
<1>5. CASE next[p] > 1
  <2>1. next[p] - 1 \in 1..(next[p] - 1) BY <1>1, <1>5
  <2>2. next[p] - 1 \in 1..Len(schema) BY <2>1, <1>2
  <2>3. QED BY <2>2, <1>1, <1>3
<1>6. QED BY <1>1, <1>4, <1>5

LEMMA CommitStep ==
  ASSUME IInv, NEW p \in Process, Commit(p)
  PROVE  IInv'
<1>1. next[p] = Len(schema) + 1 BY CommitsTheNext
<1>2. Len(schema) \in Nat /\ schema \in Seq(Nat \ {0}) BY DEF IInv, TypeOK
<1>3. TypeOK'
  <2>1. next[p] \in Nat \ {0} /\ next[p] + 1 \in Nat \ {0} BY <1>1, <1>2
  <2>2. schema' \in Seq(Nat \ {0}) BY <1>2, <2>1 DEF Commit
  <2>3. next' \in [Process -> Nat \ {0}] BY <2>1 DEF IInv, TypeOK, Commit
  <2>4. QED BY <2>1, <2>2, <2>3 DEF IInv, TypeOK, Commit, Go
<1>4. /\ Len(schema') = Len(schema) + 1
      /\ \A i \in 1..Len(schema) : schema'[i] = schema[i]
      /\ schema'[Len(schema) + 1] = next[p]
  BY <1>2 DEF Commit
<1>5. 1..Len(schema') = 1..Len(schema) \cup {Len(schema) + 1} BY <1>2, <1>4
<1>6. Prefix'
  <2>1. recorded' = 1..Len(schema') BY <1>1, <1>5 DEF IInv, Prefix, Commit
  <2>2. ASSUME NEW i \in 1..Len(schema') PROVE schema'[i] = i
    BY <1>1, <1>4, <1>5 DEF IInv, Prefix
  <2>3. QED BY <2>1, <2>2 DEF Prefix
<1>7. Knows(p)'
  <2>1. at'[p] = "loop" /\ next'[p] = next[p] + 1 /\ known'[p] = known[p]
    BY DEF Commit, Go, IInv, TypeOK
  <2>2. known[p] \subseteq recorded /\ recorded \subseteq recorded'
    BY DEF Commit, IInv, Knows
  <2>3. 1..(next'[p] - 1) \subseteq recorded'
    BY <1>1, <1>2, <1>5, <1>4, <1>6, <2>1 DEF Prefix
  <2>4. QED BY <2>1, <2>2, <2>3 DEF Knows
<1>8. ASSUME NEW q \in Process, q # p PROVE Knows(q)'
  <2>1. writer = p BY DEF Commit, IInv, Knows
  <2>2. at[q] \notin {"record", "commit"} BY <1>8, <2>1 DEF IInv, Knows
  <2>3. QED BY <1>8, <2>2, OthersKnow DEF IInv, TypeOK, Commit, Go
<1>9. QED BY <1>3, <1>6, <1>7, <1>8 DEF IInv

LEMMA NextIInv == IInv /\ [Next]_vars => IInv'
<1>1. ASSUME IInv, NEW p \in Process, Start(p) \/ Migrate(p) \/ Err(p) \/ Stop(p)
      PROVE  IInv'
  BY <1>1, QuietSteps, TransactionSteps, CommitStep DEF Migrate
<1>2. ASSUME IInv, UNCHANGED vars PROVE IInv'
  BY <1>2 DEF IInv, TypeOK, Prefix, Knows, vars, database, process
<1>3. QED BY <1>1, <1>2 DEF Next

LEMMA Invariance == Spec => []IInv
<1>1. QED BY InitIInv, NextIInv, PTL DEF Spec

-----------------------------------------------------------------------------
(***************************************************************************)
(* However many processes of whatever releases start on a database, and    *)
(* wherever they end, every migration takes effect once and in order.      *)
(***************************************************************************)
THEOREM MigratesInOrder == Spec => []InOrderAndOnce
<1>1. IInv => InOrderAndOnce BY DEF IInv, TypeOK, Prefix, InOrderAndOnce
<1>2. QED BY <1>1, Invariance, PTL

(* No process serves without all migrations of its release.                *)
THEOREM ServedSchemaIsComplete == Spec => []ServesWhatItNeeds
<1>1. IInv => ServesWhatItNeeds BY DEF IInv, Knows, ServesWhatItNeeds
<1>2. QED BY <1>1, Invariance, PTL

-----------------------------------------------------------------------------
(* Connections *)

Places == {"away", "waits", "reads", "waits inside", "reads inside"}

PoolTyped ==
  /\ owner \in [Conn -> Caller \cup {NoCaller}]
  /\ doing \in [Caller -> Places]
  /\ inner \in [Caller -> Nat]

(* Inner queries are those of nesting callers, and are made while some are *)
(* left to make.                                                           *)
Nests(p) ==
  /\ inner[p] > 0 => p \in Nesting
  /\ doing[p] \in {"waits inside", "reads inside"} => inner[p] > 0

(* NoneLeaks by the connections themselves instead of their number. *)
Shares(p) ==
  /\ doing[p] \in {"away", "waits"} => Owned(p) = {}
  /\ doing[p] \in {"reads", "waits inside"} => \E c \in Conn : Owned(p) = {c}
  /\ doing[p] = "reads inside" => \E c, d \in Conn : c # d /\ Owned(p) = {c, d}

PoolInv == PoolTyped /\ \A p \in Caller : Nests(p) /\ Shares(p)

-----------------------------------------------------------------------------
(* How a step changes who owns what *)

(* A caller that takes a connection owns one more, nobody owns less.       *)
LEMMA TakeOne ==
  ASSUME PoolTyped, NEW p \in Caller, NEW c \in Idle, owner' = [owner EXCEPT ![c] = p]
  PROVE  /\ owner' \in [Conn -> Caller \cup {NoCaller}]
         /\ c \in Conn /\ c \notin Owned(p)
         /\ Owned(p)' = Owned(p) \cup {c}
         /\ \A q \in Caller \ {p} : Owned(q)' = Owned(q)
BY CallerAssumption DEF PoolTyped, Idle, Owned

(* A caller that closes rows has one connection less, the others have theirs. *)
LEMMA ReturnOne ==
  ASSUME PoolTyped, NEW p \in Caller, GiveBack(p)
  PROVE  \E c \in Owned(p) :
           /\ owner' \in [Conn -> Caller \cup {NoCaller}]
           /\ Owned(p)' = Owned(p) \ {c}
           /\ \A q \in Caller \ {p} : Owned(q)' = Owned(q)
<1>1. PICK c \in Owned(p) : owner' = [owner EXCEPT ![c] = NoCaller]
  BY DEF GiveBack
<1> QED BY <1>1, CallerAssumption DEF PoolTyped, Owned

(* It is enough to look at the caller that takes a step.                    *)
LEMMA OneCallerSteps ==
  ASSUME PoolInv, NEW p \in Caller, NEW place \in Places, NEW n \in Nat,
         owner' \in [Conn -> Caller \cup {NoCaller}],
         doing' = [doing EXCEPT ![p] = place],
         inner' = [inner EXCEPT ![p] = n],
         n > 0 => p \in Nesting,
         place \in {"waits inside", "reads inside"} => n > 0,
         \A q \in Caller \ {p} : Owned(q)' = Owned(q),
         Shares(p)'
  PROVE  PoolInv'
<1>1. PoolTyped'
  BY DEF PoolInv, PoolTyped
<1>2. Nests(p)'
  BY DEF PoolInv, PoolTyped, Nests
<1>3. ASSUME NEW q \in Caller \ {p} PROVE Nests(q)' /\ Shares(q)'
  <2>1. doing'[q] = doing[q] /\ inner'[q] = inner[q] /\ Owned(q)' = Owned(q)
    BY DEF PoolInv, PoolTyped
  <2>2. Nests(q) /\ Shares(q)
    BY DEF PoolInv
  <2> QED BY ONLY <2>1, <2>2 DEF Nests, Shares
<1> QED BY <1>1, <1>2, <1>3 DEF PoolInv

-----------------------------------------------------------------------------
(* The invariant *)

LEMMA InitInv == PoolInit => PoolInv
<1> SUFFICES ASSUME PoolInit PROVE PoolInv
  OBVIOUS
<1>1. PoolTyped
  BY DEF PoolInit, PoolTyped, Places
<1>2. ASSUME NEW p \in Caller PROVE Nests(p) /\ Shares(p)
  BY CallerAssumption DEF PoolInit, Nests, Shares, Owned
<1> QED BY <1>1, <1>2 DEF PoolInv

LEMMA AskInv == ASSUME PoolInv, NEW p \in Caller, Ask(p) PROVE PoolInv'
<1>1. \A q \in Caller : Owned(q)' = Owned(q)
  BY DEF Ask, Owned
<1>2. Shares(p)'
  <2>1. doing'[p] = "waits" /\ Owned(p) = {}
    BY DEF Ask, Shares, PoolInv, PoolTyped
  <2> QED BY <1>1, <2>1 DEF Shares
<1>3. inner' = [inner EXCEPT ![p] = inner[p]] /\ inner[p] \in Nat /\ owner' = owner
  BY DEF Ask, PoolInv, PoolTyped
<1> QED BY <1>1, <1>2, <1>3, OneCallerSteps DEF Ask, PoolInv, PoolTyped, Nests, Places

LEMMA QueryInv == ASSUME PoolInv, NEW p \in Caller, Query(p) PROVE PoolInv'
<1>1. PICK c \in Idle : owner' = [owner EXCEPT ![c] = p]
  BY DEF Query, Take
<1>2. PICK n \in 0..MaxInner : (p \notin Nesting => n = 0) /\ inner' = [inner EXCEPT ![p] = n]
  BY DEF Query
<1>3. n \in Nat /\ (n > 0 => p \in Nesting)
  BY <1>2, InnerAssumption
<1>4. Shares(p)'
  <2>1. doing'[p] = "reads" /\ Owned(p) = {}
    BY DEF Query, Shares, PoolInv, PoolTyped
  <2>2. Owned(p)' = {c} /\ c \in Conn
    BY <1>1, <2>1, TakeOne DEF PoolInv
  <2> QED BY <2>1, <2>2 DEF Shares
<1>5. owner' \in [Conn -> Caller \cup {NoCaller}] /\ \A q \in Caller \ {p} : Owned(q)' = Owned(q)
  BY <1>1, TakeOne DEF PoolInv
<1> QED BY <1>2, <1>3, <1>4, <1>5, OneCallerSteps DEF Query, Places

LEMMA AskInnerInv == ASSUME PoolInv, NEW p \in Caller, AskInner(p) PROVE PoolInv'
<1>1. \A q \in Caller : Owned(q)' = Owned(q)
  BY DEF AskInner, Owned
<1>2. Shares(p)'
  <2>1. doing'[p] = "waits inside" /\ \E c \in Conn : Owned(p) = {c}
    BY DEF AskInner, Shares, PoolInv, PoolTyped
  <2> QED BY <1>1, <2>1 DEF Shares
<1>3. inner' = [inner EXCEPT ![p] = inner[p]] /\ inner[p] \in Nat /\ owner' = owner
  BY DEF AskInner, PoolInv, PoolTyped
<1> QED BY <1>1, <1>2, <1>3, OneCallerSteps DEF AskInner, PoolInv, PoolTyped, Nests, Places

LEMMA QueryInnerInv == ASSUME PoolInv, NEW p \in Caller, QueryInner(p) PROVE PoolInv'
<1>1. PICK c \in Idle : owner' = [owner EXCEPT ![c] = p]
  BY DEF QueryInner, Take
<1>2. PICK d \in Conn : Owned(p) = {d}
  BY DEF QueryInner, PoolInv, Shares
<1>3. Shares(p)'
  <2>1. doing'[p] = "reads inside"
    BY DEF QueryInner, PoolInv, PoolTyped
  <2>2. Owned(p)' = Owned(p) \cup {c} /\ c \notin Owned(p) /\ c \in Conn
    BY <1>1, TakeOne DEF PoolInv
  <2>3. Owned(p)' = {d, c} /\ c # d
    BY ONLY <1>2, <2>2
  <2> QED BY <2>1, <2>2, <2>3 DEF Shares
<1>4. inner' = [inner EXCEPT ![p] = inner[p]] /\ inner[p] \in Nat /\ inner[p] > 0
  BY DEF QueryInner, PoolInv, PoolTyped, Nests
<1>5. owner' \in [Conn -> Caller \cup {NoCaller}] /\ \A q \in Caller \ {p} : Owned(q)' = Owned(q)
  BY <1>1, TakeOne DEF PoolInv
<1> QED BY <1>3, <1>4, <1>5, OneCallerSteps DEF QueryInner, PoolInv, Nests, Places

LEMMA CloseInnerInv == ASSUME PoolInv, NEW p \in Caller, CloseInner(p) PROVE PoolInv'
<1>1. PICK c \in Owned(p) :
        /\ owner' \in [Conn -> Caller \cup {NoCaller}]
        /\ Owned(p)' = Owned(p) \ {c}
        /\ \A q \in Caller \ {p} : Owned(q)' = Owned(q)
  BY ReturnOne DEF CloseInner, PoolInv
<1>2. Shares(p)'
  <2>1. doing'[p] = "reads"
    BY DEF CloseInner, PoolInv, PoolTyped
  <2>2. PICK d, e \in Conn : d # e /\ Owned(p) = {d, e}
    BY DEF CloseInner, PoolInv, Shares
  <2>3. Owned(p)' = {d} \/ Owned(p)' = {e}
    BY <1>1, <2>2
  <2> QED BY <2>1, <2>3 DEF Shares
<1>3. inner[p] \in Nat /\ inner[p] > 0 /\ p \in Nesting
  BY DEF CloseInner, PoolInv, PoolTyped, Nests
<1>4. inner' = [inner EXCEPT ![p] = inner[p] - 1]
  BY DEF CloseInner
<1>5. inner[p] - 1 \in Nat
  BY <1>3
<1> QED BY <1>1, <1>2, <1>3, <1>4, <1>5, OneCallerSteps DEF CloseInner, Places

(* A call that ends leaves nothing behind: it has one connection to give back, or none. *)
LEMMA CallEnds ==
  ASSUME PoolInv, NEW p \in Caller, doing' = [doing EXCEPT ![p] = "away"],
         inner' = [inner EXCEPT ![p] = 0],
         \/ doing[p] = "waits" /\ UNCHANGED owner
         \/ doing[p] \in {"reads", "waits inside"} /\ GiveBack(p)
  PROVE  PoolInv'
<1>1. /\ owner' \in [Conn -> Caller \cup {NoCaller}]
      /\ Owned(p)' = {}
      /\ \A q \in Caller \ {p} : Owned(q)' = Owned(q)
  <2>1. CASE doing[p] = "waits" /\ UNCHANGED owner
    BY <2>1 DEF PoolInv, PoolTyped, Shares, Owned
  <2>2. CASE doing[p] \in {"reads", "waits inside"} /\ GiveBack(p)
    <3>1. PICK c \in Owned(p) :
            /\ owner' \in [Conn -> Caller \cup {NoCaller}]
            /\ Owned(p)' = Owned(p) \ {c}
            /\ \A q \in Caller \ {p} : Owned(q)' = Owned(q)
      BY <2>2, ReturnOne DEF PoolInv
    <3>2. PICK d \in Conn : Owned(p) = {d}
      BY <2>2 DEF PoolInv, Shares
    <3> QED BY <3>1, <3>2
  <2> QED BY <2>1, <2>2
<1>2. Shares(p)'
  BY <1>1 DEF Shares, PoolInv, PoolTyped
<1>3. "away" \in Places /\ "away" \notin {"waits inside", "reads inside"}
  BY ONLY DEF Places
<1>4. 0 \in Nat /\ ~(0 > 0)
  BY ONLY TRUE
<1> QED BY <1>1, <1>2, <1>3, <1>4, OneCallerSteps

LEMMA CloseInv == ASSUME PoolInv, NEW p \in Caller, Close(p) PROVE PoolInv'
<1>1. inner' = [inner EXCEPT ![p] = 0]
  BY DEF Close, PoolInv, PoolTyped
<1> QED BY <1>1, CallEnds DEF Close

LEMMA DisconnectInv == ASSUME PoolInv, NEW p \in Caller, Disconnect(p) PROVE PoolInv'
BY CallEnds DEF Disconnect

LEMMA StutterInv == ASSUME PoolInv, UNCHANGED pool PROVE PoolInv'
<1>1. \A p \in Caller : Owned(p)' = Owned(p)
  BY DEF Owned, pool
<1>2. owner' = owner /\ doing' = doing /\ inner' = inner
  BY DEF pool
<1>3. PoolTyped'
  BY <1>2 DEF PoolInv, PoolTyped
<1>4. ASSUME NEW p \in Caller PROVE Nests(p)' /\ Shares(p)'
  <2>1. Nests(p) /\ Shares(p)
    BY DEF PoolInv
  <2> QED BY <1>1, <1>2, <2>1 DEF Nests, Shares
<1> QED BY <1>3, <1>4 DEF PoolInv

LEMMA Inductive == PoolSpec => []PoolInv
<1>1. PoolInv /\ [PoolNext]_pool => PoolInv'
  <2> SUFFICES ASSUME PoolInv, [PoolNext]_pool PROVE PoolInv'
    OBVIOUS
  <2>1. CASE UNCHANGED pool
    BY <2>1, StutterInv
  <2>2. ASSUME NEW p \in Caller, Ask(p) \/ Step(p) \/ Disconnect(p) PROVE PoolInv'
    BY <2>2, AskInv, QueryInv, AskInnerInv, QueryInnerInv, CloseInnerInv, CloseInv,
       DisconnectInv DEF Step
  <2> QED BY <2>1, <2>2 DEF PoolNext
<1> QED BY <1>1, InitInv, PTL DEF PoolSpec

-----------------------------------------------------------------------------
(***************************************************************************)
(* No connection is lost to the pool: whatever a caller did and on every   *)
(* path that ends its call (deferred Closes of selector.go and store.go,   *)
(* the cancelled context of a request), it has as many connections as      *)
(* queries open.                                                           *)
(***************************************************************************)
THEOREM PoolIsWhole == PoolSpec => []NoneLeaks
<1>1. PoolInv => NoneLeaks
  <2> SUFFICES ASSUME PoolInv, NEW p \in Caller PROVE Cardinality(Owned(p)) = Holds(doing[p])
    BY DEF NoneLeaks
  <2>1. Shares(p) /\ doing[p] \in Places
    BY DEF PoolInv, PoolTyped
  <2>2. CASE doing[p] \in {"away", "waits"}
    BY <2>1, <2>2, FS_EmptySet DEF Shares, Holds
  <2>3. CASE doing[p] \in {"reads", "waits inside"}
    BY <2>1, <2>3, FS_Singleton DEF Shares, Holds
  <2>4. CASE doing[p] = "reads inside"
    <3>1. PICK c, d \in Conn : c # d /\ Owned(p) = {c, d}
      BY <2>1, <2>4 DEF Shares
    <3>2. IsFiniteSet({c}) /\ Cardinality({c}) = 1
      BY FS_Singleton
    <3>3. Cardinality({c} \cup {d}) = 2
      <4>1. PICK C : C = {c} OBVIOUS
      <4>2. IsFiniteSet(C) /\ Cardinality(C) = 1 /\ d \notin C BY <3>1, <3>2, <4>1
      <4>3. Cardinality(C \cup {d}) = Cardinality(C) + 1 BY <4>2, FS_AddElement
      <4> QED BY <4>1, <4>2, <4>3
    <3>4. Owned(p) = {c} \cup {d}
      BY <3>1
    <3> QED BY <2>4, <3>3, <3>4 DEF Holds
  <2> QED BY <2>1, <2>2, <2>3, <2>4 DEF Places
<1> QED BY <1>1, Inductive, PTL

(***************************************************************************)
(* The pool is stuck only with every connection at another nesting caller, *)
(* whatever their numbers: for the eight of db.go it takes eight of them   *)
(* at one time.                                                            *)
(***************************************************************************)
THEOREM PoolSticksOnlyByNesting == PoolSpec => []StuckOnlyByNesting
<1>1. PoolInv => StuckOnlyByNesting
  <2> SUFFICES ASSUME PoolInv, Stuck, NEW c \in Conn
               PROVE  owner[c] \in Nesting /\ \A d \in Conn : owner[c] = owner[d] => c = d
    BY DEF StuckOnlyByNesting
  <2>1. owner[c] \in Caller /\ doing[owner[c]] = "waits inside"
    BY DEF PoolInv, PoolTyped, Stuck
  <2>2. owner[c] \in Nesting
    BY <2>1 DEF PoolInv, PoolTyped, Nests
  <2>3. PICK e \in Conn : Owned(owner[c]) = {e}
    BY <2>1 DEF PoolInv, Shares
  <2>4. ASSUME NEW d \in Conn, owner[c] = owner[d] PROVE c = d
    <3>1. {c, d} \subseteq Owned(owner[c])
      BY <2>4 DEF Owned
    <3> QED BY <2>3, <3>1
  <2> QED BY <2>2, <2>4
<1> QED BY <1>1, Inductive, PTL

=============================================================================
