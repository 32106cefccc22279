-------------------------- MODULE Database_proofs --------------------------
(***************************************************************************)
(* Proofs about Database, for any callers and players: its types, that a   *)
(* request fails only for a reason, and that answers reach the requests    *)
(* they were given to.                                                     *)
(***************************************************************************)
EXTENDS Database, SequenceTheorems, TLAPS

-----------------------------------------------------------------------------
(* The answer to a request *)

AnswerLen(kind, size) == IF kind = "simple" THEN 1 ELSE size + 2

KindAt(kind, size, j) == IF kind = "simple" THEN "single"
                         ELSE IF j = 1 THEN "header"
                         ELSE IF j = size + 2 THEN "footer" ELSE "item"

\* The messages of an answer, one by one.
LEMMA AnswerIs ==
    ASSUME NEW kind \in {"simple", "menu"}, NEW txn \in Txn, NEW size \in Nat
    PROVE  /\ Answer(kind, txn, size) \in Seq(Message)
           /\ Len(Answer(kind, txn, size)) = AnswerLen(kind, size)
           /\ \A j \in 1..AnswerLen(kind, size) :
                  Answer(kind, txn, size)[j] = [kind |-> KindAt(kind, size, j), txn |-> txn]
<1>1. CASE kind = "simple"
    <2> DEFINE single == [kind |-> "single", txn |-> txn]
    <2>1. Answer(kind, txn, size) = <<single>>
        BY <1>1 DEF Answer
    <2>2. single \in Message
        BY DEF Message
    <2>3. AnswerLen(kind, size) = 1
          /\ \A j : [kind |-> KindAt(kind, size, j), txn |-> txn] = single
        BY <1>1 DEF AnswerLen, KindAt
    <2> HIDE DEF single
    <2> QED
        BY <2>1, <2>2, <2>3
<1>2. CASE kind = "menu"
    <2> DEFINE header == [kind |-> "header", txn |-> txn]
               footer == [kind |-> "footer", txn |-> txn]
               item   == [kind |-> "item", txn |-> txn]
               items  == [i \in 1..size |-> item]
    <2>1. header \in Message /\ footer \in Message /\ item \in Message
        BY DEF Message
    <2>2. Answer(kind, txn, size) = <<header>> \o items \o <<footer>>
        <3>1. kind # "simple"
            BY <1>2
        <3> QED
            BY <3>1, Zenon DEF Answer
    <2>3. /\ \A j \in 1..AnswerLen(kind, size) :
                 [kind |-> KindAt(kind, size, j), txn |-> txn]
                     = IF j = 1 THEN header ELSE IF j = size + 2 THEN footer ELSE item
          /\ AnswerLen(kind, size) = size + 2
        BY <1>2 DEF KindAt, AnswerLen
    <2> HIDE DEF header, footer, item
    <2>4. items \in Seq(Message) /\ Len(items) = size /\ \A i \in 1..size : items[i] = item
        BY <2>1
    <2> HIDE DEF items
    <2> DEFINE begun == <<header>> \o items
    <2>5. /\ begun \in Seq(Message) /\ Len(begun) = size + 1
          /\ begun[1] = header /\ \A i \in 2..(size + 1) : begun[i] = item
        BY <2>1, <2>4
    <2> HIDE DEF begun
    <2>6. /\ begun \o <<footer>> \in Seq(Message) /\ Len(begun \o <<footer>>) = size + 2
          /\ \A i \in 1..(size + 1) : (begun \o <<footer>>)[i] = begun[i]
          /\ (begun \o <<footer>>)[size + 2] = footer
        BY <2>1, <2>5
    <2>7. Answer(kind, txn, size) = begun \o <<footer>>
        BY <2>2 DEF begun
    <2> QED
        BY <2>3, <2>5, <2>6, <2>7
<1> QED
    BY <1>1, <1>2

LEMMA SuccessorTxn ==
    ASSUME NEW n \in Txn
    PROVE  Successor(n) \in Txn /\ Successor(n) # n
BY DatabaseAssumption DEF Txn, Successor

-----------------------------------------------------------------------------
(* The records of a call and of a client *)

LEMMA NoCallWith ==
    ASSUME NEW pc, NEW player, NEW client
    PROVE  /\ [NoCall EXCEPT !.pc = pc]
                 = [pc |-> pc, player |-> NoPlayer, kind |-> "simple", txn |-> 0,
                    items |-> <<>>, size |-> 0, client |-> NoClient]
           /\ [NoCall EXCEPT !.pc = pc, !.client = client, !.player = player]
                 = [pc |-> pc, player |-> player, kind |-> "simple", txn |-> 0,
                    items |-> <<>>, size |-> 0, client |-> client]
<1> DEFINE at == [NoCall EXCEPT !.pc = pc]
           of == [at EXCEPT !.client = client]
<1>1. at = [pc |-> pc, player |-> NoPlayer, kind |-> "simple", txn |-> 0,
            items |-> <<>>, size |-> 0, client |-> NoClient]
    BY DEF NoCall
<1> HIDE DEF at
<1>2. of = [pc |-> pc, player |-> NoPlayer, kind |-> "simple", txn |-> 0,
            items |-> <<>>, size |-> 0, client |-> client]
    BY <1>1
<1>3. [NoCall EXCEPT !.pc = pc, !.client = client, !.player = player] = [of EXCEPT !.player = player]
    BY Zenon DEF at
<1> HIDE DEF of
<1>4. [of EXCEPT !.player = player]
          = [pc |-> pc, player |-> player, kind |-> "simple", txn |-> 0,
             items |-> <<>>, size |-> 0, client |-> client]
    BY <1>2
<1> QED
    BY <1>1, <1>3, <1>4 DEF at

LEMMA NoneTyped == NoClient \in Client /\ NewClient \in Client /\ NoCall \in Call
<1>1. 0 \in Txn /\ 1 \in Txn
    BY DatabaseAssumption DEF Txn
<1>2. NoClient \in Client /\ NewClient \in Client
    BY <1>1 DEF NoClient, NewClient, Client
<1>3. 0 \in 0..MaxItems
    BY DatabaseAssumption
<1> QED
    BY <1>1, <1>2, <1>3 DEF NoCall, Call

-----------------------------------------------------------------------------
(***************************************************************************)
(* The invariant.  On a client that no call was dropped on, nothing is     *)
(* under way whenever no request is; while one writes, its answer is all   *)
(* there is to come; while it reads, the stream is the rest of its answer, *)
(* as far as the connection is open.                                       *)
(***************************************************************************)

\* The stream of client k is the rest of the answer to the request of call own.
Remains(k, own) ==
    k.unsent = <<>> /\ \E m \in Nat :
        /\ m < AnswerLen(own.kind, own.size)
        /\ m + Len(k.stream) <= AnswerLen(own.kind, own.size)
        /\ k.open => m + Len(k.stream) = AnswerLen(own.kind, own.size)
        /\ \A i \in 1..Len(k.stream) :
               k.stream[i] = [kind |-> KindAt(own.kind, own.size, m + i), txn |-> own.txn]
        /\ Len(own.items) = IF m = 0 THEN 0 ELSE m - 1
        /\ \A i \in 1..Len(own.items) : own.items[i] = own.txn

\* Nothing is under way on client k.
Quiet(k) == k.stream = <<>> /\ k.unsent = <<>>

\* The request of call own is all that is under way on k, and is not sent yet.
Asked(k, own) == k.stream = <<>> /\ k.unsent = Answer(own.kind, own.txn, own.size)

Held == lock # NoCaller => call[lock].pc \in {"ready", "writing", "reading"}

InUse(p) == lock # NoCaller /\ call[lock].player = p

IdleEmpty == \A p \in Player : pool[p].clean /\ ~InUse(p) => Quiet(pool[p])

CallerOK(c) ==
    /\ ~Ended(c) => call[c].player \in Player
    /\ call[c].pc \in {"locking", "connecting", "ready", "writing"} => call[c].items = <<>>
    /\ call[c].pc \in {"ready", "inserting"} /\ ClientOf(c).clean => Quiet(ClientOf(c))
    /\ call[c].pc = "writing" /\ ClientOf(c).clean => Asked(ClientOf(c), call[c])
    /\ call[c].pc = "reading" /\ ClientOf(c).clean => Remains(ClientOf(c), call[c])

CleanInv == TypeOK /\ Held /\ IdleEmpty /\ \A c \in Caller : CallerOK(c)

\* A step of c is c's: it changes no other call and no client that another one uses.
Uses(c) == call[c].pc \in {"ready", "writing", "reading", "inserting"}

Step(c) == Lock(c) \/ Proceeds(c) \/ Insert(c) \/ Cancel(c)

Apart(c) == \A d \in Caller \ {c} : call'[d] = call[d] /\ (Uses(d) => ClientOf(d)' = ClientOf(d))

LEMMA ClientTyped ==
    ASSUME TypeOK, NEW c \in Caller, lock = c => call[c].player \in Player
    PROVE  ClientOf(c) \in Client
BY NoneTyped DEF TypeOK, ClientOf, Pooled, Call

LEMMA Continued ==
    ASSUME CleanInv, NEW c \in Caller, Uses(c), NEW new \in Call, NEW k \in Client,
           Continues(c, new, k), lock' = lock, new.player = call[c].player
    PROVE  /\ call' \in [Caller -> Call] /\ pool' \in [Player -> Client]
           /\ call'[c].pc = new.pc /\ call'[c].player = new.player
           /\ call'[c].kind = new.kind /\ call'[c].txn = new.txn
           /\ call'[c].items = new.items /\ call'[c].size = new.size
           /\ ClientOf(c)' = k /\ Apart(c)
           /\ \A p \in Player : ~InUse(p) => pool'[p] = pool[p]
<1>1. /\ pool \in [Player -> Client] /\ call \in [Caller -> Call] /\ NoClient \in Client
      /\ call[c].player \in Player
    BY NoneTyped DEF CleanInv, TypeOK, CallerOK, Uses, Ended
<1>2. CASE lock = c
    <2>1. /\ pool' = [pool EXCEPT ![call[c].player] = k]
          /\ call' = [call EXCEPT ![c] = new]
        BY <1>2 DEF Continues, Pooled
    <2>2. \A d \in Caller \ {c} : lock # d /\ call'[d] = call[d]
        BY <1>1, <1>2, <2>1
    <2>3. Apart(c)
        BY <2>2 DEF Apart, ClientOf, Pooled
    <2>4. c # NoCaller
        BY DatabaseAssumption
    <2> QED
        BY <1>1, <1>2, <2>1, <2>3, <2>4 DEF ClientOf, Pooled, InUse
<1>3. CASE lock # c
    <2> DEFINE new2 == [new EXCEPT !.client = k]
    <2>1. pool' = pool /\ call' = [call EXCEPT ![c] = new2]
        BY <1>3 DEF Continues, Pooled
    <2>2. /\ new2 \in Call /\ new2.client = k /\ new2.pc = new.pc /\ new2.player = new.player
          /\ new2.kind = new.kind /\ new2.txn = new.txn /\ new2.items = new.items
          /\ new2.size = new.size
        BY DEF Call
    <2> HIDE DEF new2
    <2>3. \A d \in Caller \ {c} : call'[d] = call[d]
        BY <1>1, <2>1
    <2>4. Apart(c)
        BY <2>1, <2>3 DEF Apart, ClientOf, Pooled
    <2> QED
        BY <1>1, <1>3, <2>1, <2>2, <2>4 DEF ClientOf, Pooled
<1> QED
    BY <1>2, <1>3

LEMMA Finished ==
    ASSUME CleanInv, NEW c \in Caller, Uses(c), NEW k \in Client, NEW result \in {"ok", "err"},
           Ends(c, k, result), k.clean => Quiet(k)
    PROVE  /\ call' \in [Caller -> Call] /\ pool' \in [Player -> Client]
           /\ lock' \in Caller \union {NoCaller}
           /\ call'[c].pc = IF lock # c /\ result = "ok" THEN "inserting" ELSE result
           /\ Held' /\ IdleEmpty' /\ CallerOK(c)' /\ Apart(c)
<1>1. /\ pool \in [Player -> Client] /\ call \in [Caller -> Call] /\ NoClient \in Client
      /\ call[c].player \in Player /\ NoPlayer \in Player \union {NoPlayer}
      /\ lock \in Caller \union {NoCaller} /\ NoCaller \notin Caller /\ Held /\ IdleEmpty
    BY NoneTyped, DatabaseAssumption DEF CleanInv, TypeOK, CallerOK, Uses, Ended
<1> DEFINE ended == [NoCall EXCEPT !.pc = result]
           pooling == [NoCall EXCEPT !.pc = "inserting", !.client = k, !.player = call[c].player]
<1>2. /\ ended \in Call /\ ended.pc = result /\ pooling \in Call /\ pooling.pc = "inserting"
      /\ pooling.client = k /\ pooling.player = call[c].player
    <2>1. 0 \in Txn /\ 0 \in 0..MaxItems /\ <<>> \in Seq(Txn)
        BY DatabaseAssumption DEF Txn
    <2>2. /\ ended = [pc |-> result, player |-> NoPlayer, kind |-> "simple", txn |-> 0,
                       items |-> <<>>, size |-> 0, client |-> NoClient]
          /\ pooling = [pc |-> "inserting", player |-> call[c].player, kind |-> "simple",
                         txn |-> 0, items |-> <<>>, size |-> 0, client |-> k]
        BY NoCallWith
    <2> HIDE DEF ended, pooling
    <2> QED
        BY <1>1, <2>1, <2>2 DEF Call
<1>3. CASE lock = c
    <2>1. /\ pool' = [pool EXCEPT ![call[c].player] = k]
          /\ call' = [call EXCEPT ![c] = ended] /\ lock' = NoCaller
        BY <1>3 DEF Ends, Pooled
    <2> HIDE DEF ended, pooling
    <2>2. \A d \in Caller \ {c} : lock # d /\ lock' # d /\ call'[d] = call[d]
        BY <1>1, <1>3, <2>1
    <2>3. Apart(c)
        BY <2>2 DEF Apart, ClientOf, Pooled
    <2>4. IdleEmpty'
        BY <1>1, <1>3, <2>1 DEF IdleEmpty, InUse
    <2>5. CallerOK(c)'
        BY <1>1, <1>2, <2>1 DEF CallerOK, Ended
    <2> QED
        BY <1>1, <1>2, <1>3, <2>1, <2>3, <2>4, <2>5 DEF Held
<1>4. CASE lock # c
    <2>1. pool' = pool /\ lock' = lock
          /\ call' = [call EXCEPT ![c] = IF result = "ok" THEN pooling ELSE ended]
        BY <1>4 DEF Ends, Pooled
    <2> HIDE DEF ended, pooling
    <2>2. /\ call'[c] = IF result = "ok" THEN pooling ELSE ended
          /\ \A d \in Caller \ {c} : call'[d] = call[d]
        BY <1>1, <2>1
    <2>3. Apart(c)
        BY <2>1, <2>2 DEF Apart, ClientOf, Pooled
    <2>4. Held' /\ IdleEmpty'
        <3>1. lock # NoCaller => call'[lock] = call[lock]
            BY <1>1, <1>4, <2>2
        <3> QED
            BY <1>1, <2>1, <3>1 DEF Held, IdleEmpty, InUse
    <2>5. CallerOK(c)'
        BY <1>1, <1>2, <1>4, <2>1, <2>2 DEF CallerOK, Ended, ClientOf, Pooled
    <2> QED
        BY <1>1, <1>2, <1>4, <2>1, <2>2, <2>3, <2>4, <2>5
<1> QED
    BY <1>3, <1>4

\* A step of c keeps the invariant when it keeps c's own part and the common ones.
LEMMA Gathered ==
    ASSUME CleanInv, NEW c \in Caller, Apart(c), TypeOK', Held', IdleEmpty', CallerOK(c)'
    PROVE  CleanInv'
<1>1. ASSUME NEW d \in Caller \ {c} PROVE CallerOK(d)'
    <2>1. CallerOK(d) /\ call'[d] = call[d] /\ (Uses(d) => ClientOf(d)' = ClientOf(d))
        BY DEF CleanInv, Apart
    <2>2. CASE Uses(d)
        <3>1. ClientOf(d)' = ClientOf(d)
            BY <2>1, <2>2
        <3> HIDE DEF ClientOf
        <3> QED
            BY <2>1, <3>1 DEF CallerOK, Ended
    <2>3. CASE ~Uses(d)
        BY <2>1, <2>3 DEF CallerOK, Ended, Uses
    <2> QED
        BY <2>2, <2>3
<1> QED
    BY <1>1 DEF CleanInv

\* A step of c that leaves the mutex to others, or leaves it free.
LEMMA Outside ==
    ASSUME CleanInv, NEW c \in Caller, lock # c, lock' = lock, NEW new,
           call' = [call EXCEPT ![c] = new],
           pool' = pool \/ (lock = NoCaller /\ \A p \in Player : pool'[p].clean => Quiet(pool'[p]))
    PROVE  Apart(c) /\ Held' /\ IdleEmpty' /\ call'[c] = new
<1>1. /\ call \in [Caller -> Call] /\ lock \in Caller \union {NoCaller} /\ Held /\ IdleEmpty
      /\ NoCaller \notin Caller
    BY DatabaseAssumption DEF CleanInv, TypeOK
<1>2. call'[c] = new /\ \A d \in Caller \ {c} : call'[d] = call[d]
    BY <1>1
<1>3. Apart(c)
    BY <1>1, <1>2 DEF Apart, ClientOf, Pooled
<1>4. lock # NoCaller => call'[lock] = call[lock]
    BY <1>1, <1>2
<1>5. Held'
    BY <1>1, <1>4 DEF Held
<1>6. IdleEmpty'
    BY <1>1, <1>4 DEF IdleEmpty, InUse
<1> QED
    BY <1>2, <1>3, <1>5, <1>6

-----------------------------------------------------------------------------
(* The steps of a call *)

LEMMA BeginKeeps ==
    ASSUME CleanInv, NEW c \in Caller, NEW p \in Player, NEW kind \in {"simple", "menu"},
           Begin(c, p, kind)
    PROVE  CleanInv' /\ Apart(c)
<1> DEFINE begun  == [NoCall EXCEPT !.pc = "locking", !.player = p, !.kind = kind]
           asked  == [NoCall EXCEPT !.pc = "locking"]
           asked2 == [asked EXCEPT !.player = p]
<1>1. call' = [call EXCEPT ![c] = begun] /\ UNCHANGED <<pool, lock, silent, cancels, closes>>
    BY DEF Begin
<1>2. begun = [asked2 EXCEPT !.kind = kind]
    BY Zenon
<1>3. asked = [pc |-> "locking", player |-> NoPlayer, kind |-> "simple", txn |-> 0,
               items |-> <<>>, size |-> 0, client |-> NoClient]
    BY NoCallWith
<1> HIDE DEF begun, asked
<1>4. asked2 = [pc |-> "locking", player |-> p, kind |-> "simple", txn |-> 0,
                items |-> <<>>, size |-> 0, client |-> NoClient]
    BY <1>3
<1> HIDE DEF asked2
<1>5. begun = [pc |-> "locking", player |-> p, kind |-> kind, txn |-> 0,
               items |-> <<>>, size |-> 0, client |-> NoClient]
    BY <1>2, <1>4
<1>6. 0 \in Txn /\ 0 \in 0..MaxItems /\ NoClient \in Client
    BY DatabaseAssumption, NoneTyped DEF Txn
<1>7. begun \in Call
    BY <1>5, <1>6 DEF Call
<1>8. lock # c
    BY DatabaseAssumption DEF Begin, Ended, CleanInv, Held
<1>9. Apart(c) /\ Held' /\ IdleEmpty' /\ call'[c] = begun
    BY <1>1, <1>8, Outside
<1>10. TypeOK'
    BY <1>1, <1>7 DEF CleanInv, TypeOK
<1>11. CallerOK(c)'
    BY <1>5, <1>9 DEF CallerOK, Ended
<1> QED
    BY <1>9, <1>10, <1>11, Gathered

LEMMA LockKeeps ==
    ASSUME CleanInv, NEW c \in Caller, Lock(c)
    PROVE  CleanInv' /\ Apart(c)
<1>1. /\ TypeOK /\ Held /\ IdleEmpty /\ CallerOK(c) /\ call[c].player \in Player
      /\ lock = NoCaller /\ NoCaller \notin Caller /\ lock # c /\ call[c].pc = "locking" /\ call[c].items = <<>>
      /\ call \in [Caller -> Call] /\ pool \in [Player -> Client] /\ NoClient \in Client
    BY DatabaseAssumption, NoneTyped DEF Lock, CleanInv, CallerOK, Ended, TypeOK
<1>2. CASE pool[call[c].player].fresh
    <2> DEFINE new == [call[c] EXCEPT !.pc = "ready"]
    <2>1. lock' = c /\ call' = [call EXCEPT ![c] = new] /\ UNCHANGED <<pool, silent, cancels, closes>>
        BY <1>2 DEF Lock
    <2>2. new \in Call /\ new.pc = "ready" /\ new.player = call[c].player /\ new.items = <<>>
        BY <1>1 DEF Call
    <2> HIDE DEF new
    <2>3. call'[c] = new /\ \A d \in Caller \ {c} : call'[d] = call[d]
        BY <1>1, <2>1
    <2>4. Apart(c)
        BY <1>1, <2>1, <2>3 DEF Apart, ClientOf, Pooled
    <2>5. TypeOK'
        BY <1>1, <2>1, <2>2 DEF TypeOK
    <2>6. Held' /\ IdleEmpty'
        BY <1>1, <2>1, <2>2, <2>3 DEF Held, IdleEmpty, InUse
    <2>7. CallerOK(c)'
        BY <1>1, <2>1, <2>2, <2>3 DEF CallerOK, Ended, IdleEmpty, InUse, ClientOf, Pooled
    <2> QED
        BY <2>4, <2>5, <2>6, <2>7, Gathered
<1>3. CASE ~pool[call[c].player].fresh
    <2> DEFINE new == [call[c] EXCEPT !.pc = "connecting"]
    <2>1. /\ pool' = [pool EXCEPT ![call[c].player] = NoClient]
          /\ call' = [call EXCEPT ![c] = new] /\ UNCHANGED <<lock, silent, cancels, closes>>
        BY <1>3 DEF Lock
    <2>2. new \in Call /\ new.pc = "connecting" /\ new.player = call[c].player /\ new.items = <<>>
        BY <1>1 DEF Call
    <2> HIDE DEF new
    <2>3. \A p \in Player : pool'[p].clean => Quiet(pool'[p])
        BY <1>1, <2>1 DEF IdleEmpty, InUse, NoClient
    <2>4. Apart(c) /\ Held' /\ IdleEmpty' /\ call'[c] = new
        BY <1>1, <2>1, <2>3, Outside
    <2>5. TypeOK'
        BY <1>1, <2>1, <2>2 DEF TypeOK
    <2>6. CallerOK(c)'
        BY <1>1, <2>2, <2>4 DEF CallerOK, Ended
    <2> QED
        BY <2>4, <2>5, <2>6, Gathered
<1> QED
    BY <1>2, <1>3

LEMMA ConnectKeeps ==
    ASSUME CleanInv, NEW c \in Caller, Connect(c) \/ ConnectFails(c)
    PROVE  CleanInv' /\ Apart(c)
<1>1. /\ TypeOK /\ CallerOK(c) /\ call[c].player \in Player /\ lock # c
      /\ call[c].pc = "connecting" /\ call[c].items = <<>>
      /\ call \in [Caller -> Call] /\ NewClient \in Client /\ NoCall \in Call
    BY DatabaseAssumption, NoneTyped DEF Connect, ConnectFails, CleanInv, CallerOK, Ended, TypeOK, Held
<1>2. CASE Connect(c)
    <2> DEFINE ready == [call[c] EXCEPT !.pc = "ready"]
               new   == [ready EXCEPT !.client = NewClient]
    <2>1. call' = [call EXCEPT ![c] = [call[c] EXCEPT !.pc = "ready", !.client = NewClient]]
          /\ UNCHANGED <<pool, lock, silent, cancels, closes>>
        BY <1>1, <1>2 DEF Connect
    <2>2. call' = [call EXCEPT ![c] = new]
        BY <2>1
    <2>3. ready \in Call /\ ready.pc = "ready" /\ ready.player = call[c].player /\ ready.items = <<>>
        BY <1>1 DEF Call
    <2> HIDE DEF ready
    <2>4. /\ new \in Call /\ new.pc = "ready" /\ new.player = call[c].player
          /\ new.items = <<>> /\ new.client = NewClient
        BY <1>1, <2>3 DEF Call
    <2> HIDE DEF new
    <2>5. Apart(c) /\ Held' /\ IdleEmpty' /\ call'[c] = new
        BY <1>1, <2>1, <2>2, Outside
    <2>6. TypeOK'
        BY <1>1, <2>1, <2>2, <2>4 DEF TypeOK
    <2>7. Quiet(NewClient)
        BY DEF NewClient, Quiet
    <2>8. CallerOK(c)'
        BY <1>1, <2>1, <2>4, <2>5, <2>7 DEF CallerOK, Ended, ClientOf, Pooled
    <2> QED
        BY <2>5, <2>6, <2>8, Gathered
<1>3. CASE ConnectFails(c)
    <2> DEFINE new == [NoCall EXCEPT !.pc = "err"]
    <2>1. /\ call' = [call EXCEPT ![c] = new] /\ UNCHANGED <<pool, lock, silent, cancels>>
          /\ closes < MaxCloses /\ closes' = closes + 1
        BY <1>3 DEF ConnectFails
    <2>2. new \in Call /\ new.pc = "err"
        BY <1>1 DEF Call
    <2> HIDE DEF new
    <2>3. Apart(c) /\ Held' /\ IdleEmpty' /\ call'[c] = new
        BY <1>1, <2>1, Outside
    <2>4. TypeOK'
        BY <1>1, <2>1, <2>2, DatabaseAssumption DEF TypeOK
    <2>5. CallerOK(c)'
        BY <2>2, <2>3 DEF CallerOK, Ended
    <2> QED
        BY <2>3, <2>4, <2>5, Gathered
<1> QED
    BY <1>2, <1>3

\* What is to come says the same of two calls with the same request.
LEMMA RequestSame ==
    ASSUME NEW k, NEW a, NEW b, a.kind = b.kind, a.txn = b.txn, a.items = b.items, a.size = b.size
    PROVE  (Remains(k, a) => Remains(k, b)) /\ (Asked(k, a) => Asked(k, b))
BY DEF Remains, Asked

\* What is under way on client k is right for call own, which writes or reads.
Underway(k, own) == /\ own.pc = "writing" => own.items = <<>> /\ (k.clean => Asked(k, own))
                    /\ own.pc = "reading" => (k.clean => Remains(k, own))

\* A request goes on: its client's stream is again the rest of its answer.
LEMMA GoesOn ==
    ASSUME CleanInv, NEW c \in Caller, Uses(c), NEW new \in Call, NEW k \in Client,
           Continues(c, new, k), UNCHANGED <<lock, silent, cancels, closes>>,
           new.player = call[c].player, new.pc \in {"writing", "reading"}, Underway(k, new)
    PROVE  CleanInv' /\ Apart(c)
<1>1. /\ call' \in [Caller -> Call] /\ pool' \in [Player -> Client]
      /\ call'[c].pc = new.pc /\ call'[c].player = call[c].player
      /\ call'[c].kind = new.kind /\ call'[c].txn = new.txn
      /\ call'[c].items = new.items /\ call'[c].size = new.size
      /\ ClientOf(c)' = k /\ Apart(c)
      /\ \A p \in Player : ~InUse(p) => pool'[p] = pool[p]
    BY Continued
<1>2. /\ TypeOK /\ Held /\ IdleEmpty /\ call[c].player \in Player /\ lock \in Caller \union {NoCaller}
    BY DEF CleanInv, CallerOK, Ended, Uses, TypeOK
<1>3. TypeOK'
    BY <1>1, <1>2 DEF TypeOK
<1>4. lock # NoCaller => call'[lock].player = call[lock].player
    BY <1>1, <1>2 DEF Apart
<1>5. Held'
    BY <1>1, <1>2 DEF Held, Apart
<1>6. IdleEmpty'
    BY <1>1, <1>2, <1>4 DEF IdleEmpty, InUse
<1>7. /\ Remains(k, new) => Remains(k, call'[c])
      /\ Asked(k, new) => Asked(k, call'[c])
    BY <1>1, RequestSame
<1>8. CallerOK(c)'
    BY <1>1, <1>2, <1>7 DEF CallerOK, Ended, Underway
<1> QED
    BY <1>1, <1>3, <1>5, <1>6, <1>8, Gathered

\* A request ends: its client is left empty.
LEMMA Stops ==
    ASSUME CleanInv, NEW c \in Caller, Uses(c), NEW k \in Client, NEW result \in {"ok", "err"},
           Ends(c, k, result), UNCHANGED <<silent, cancels, closes>>, k.clean => Quiet(k)
    PROVE  CleanInv' /\ Apart(c)
<1>1. /\ call' \in [Caller -> Call] /\ pool' \in [Player -> Client]
      /\ lock' \in Caller \union {NoCaller}
      /\ Held' /\ IdleEmpty' /\ CallerOK(c)' /\ Apart(c)
    BY Finished
<1>2. TypeOK'
    BY <1>1, NoneTyped DEF CleanInv, TypeOK
<1> QED
    BY <1>1, <1>2, Gathered

\* The request of a call and its client, when it is put into the buffer.
LEMMA Sends ==
    ASSUME CleanInv, NEW c \in Caller, Send(c)
    PROVE  /\ Uses(c) /\ ClientOf(c) \in Client /\ UNCHANGED <<lock, silent, cancels, closes>>
           /\ ClientOf(c).clean => Quiet(ClientOf(c))
           /\ \E new \in Call, sent \in Client, size \in Nat :
                 /\ Continues(c, new, sent)
                 /\ new.pc = "writing" /\ new.kind = call[c].kind /\ new.txn = ClientOf(c).next
                 /\ new.items = <<>> /\ new.player = call[c].player /\ new.size = size
                 /\ sent.clean = ClientOf(c).clean /\ sent.stream = ClientOf(c).stream
                 /\ sent.unsent = ClientOf(c).unsent \o Answer(call[c].kind, ClientOf(c).next, size)
<1> DEFINE k == ClientOf(c)
<1>1. /\ TypeOK /\ CallerOK(c) /\ call[c].pc = "ready" /\ Uses(c) /\ call[c].player \in Player
      /\ call[c].items = <<>> /\ (k.clean => Quiet(k)) /\ call[c] \in Call
    BY DEF Send, CleanInv, CallerOK, Ended, TypeOK, Uses
<1>2. k \in Client
    BY <1>1, ClientTyped
<1> HIDE DEF k
<1>3. PICK size \in 0..MaxItems :
         /\ Continues(c,
              [call[c] EXCEPT !.pc = "writing", !.txn = k.next, !.size = size],
              [k EXCEPT !.next = Successor(@),
                        !.unsent = @ \o Answer(call[c].kind, k.next, size)])
         /\ UNCHANGED <<lock, silent, cancels, closes>>
    BY DEF Send, k
<1> DEFINE unsent == k.unsent \o Answer(call[c].kind, k.next, size)
           asked  == [call[c] EXCEPT !.pc = "writing"]
           named  == [asked EXCEPT !.txn = k.next]
           new    == [named EXCEPT !.size = size]
           taken  == [k EXCEPT !.next = Successor(k.next)]
           sent   == [taken EXCEPT !.unsent = unsent]
<1>4. /\ k.next \in Txn /\ k.unsent \in Seq(Message) /\ size \in Nat
      /\ call[c].kind \in {"simple", "menu"} /\ Successor(k.next) \in Txn
    BY <1>1, <1>2, DatabaseAssumption, SuccessorTxn DEF Client, Call
<1>5. Answer(call[c].kind, k.next, size) \in Seq(Message)
    <2>1. \A kind \in {"simple", "menu"}, txn \in Txn, items \in Nat :
              Answer(kind, txn, items) \in Seq(Message)
        BY AnswerIs
    <2> HIDE DEF unsent, asked, named, new, taken, sent
    <2> QED
        BY <1>4, <2>1
<1>6. unsent \in Seq(Message)
    BY <1>4, <1>5
<1>7. Continues(c, new, sent)
    <2>1. new = [call[c] EXCEPT !.pc = "writing", !.txn = k.next, !.size = size]
        BY Zenon
    <2>2. sent = [k EXCEPT !.next = Successor(@),
                           !.unsent = @ \o Answer(call[c].kind, k.next, size)]
        BY Zenon
    <2> HIDE DEF new, sent
    <2> QED
        BY <1>3, <2>1, <2>2
<1>unsent. unsent = k.unsent \o Answer(call[c].kind, k.next, size)
    OBVIOUS
<1> HIDE DEF unsent
<1>8. /\ asked \in Call /\ asked.pc = "writing" /\ asked.kind = call[c].kind
      /\ asked.items = call[c].items /\ asked.player = call[c].player
    BY <1>1 DEF Call
<1>9. taken \in Client /\ taken.clean = k.clean /\ taken.stream = k.stream
    BY <1>2, <1>4 DEF Client
<1> HIDE DEF asked, taken
<1>10. /\ named \in Call /\ named.pc = "writing" /\ named.kind = call[c].kind /\ named.txn = k.next
       /\ named.items = call[c].items /\ named.player = call[c].player
    BY <1>4, <1>8 DEF Call
<1>11. sent \in Client /\ sent.clean = k.clean /\ sent.stream = k.stream /\ sent.unsent = unsent
    BY <1>6, <1>9 DEF Client
<1> HIDE DEF named, sent
<1>12. /\ new \in Call /\ new.pc = "writing" /\ new.kind = call[c].kind /\ new.txn = k.next
       /\ new.items = <<>> /\ new.player = call[c].player /\ new.size = size
    BY <1>1, <1>10 DEF Call
<1> HIDE DEF new
<1> QED
    BY <1>1, <1>2, <1>3, <1>4, <1>7, <1>11, <1>12, <1>unsent DEF k

LEMMA SendKeeps ==
    ASSUME CleanInv, NEW c \in Caller, Send(c)
    PROVE  CleanInv' /\ Apart(c)
<1> DEFINE k == ClientOf(c)
<1>1. /\ Uses(c) /\ k \in Client /\ UNCHANGED <<lock, silent, cancels, closes>>
      /\ k.clean => Quiet(k)
    BY Sends
<1>2. PICK new \in Call, sent \in Client, size \in Nat :
         /\ Continues(c, new, sent)
         /\ new.pc = "writing" /\ new.kind = call[c].kind /\ new.txn = k.next
         /\ new.items = <<>> /\ new.player = call[c].player /\ new.size = size
         /\ sent.clean = k.clean /\ sent.stream = k.stream
         /\ sent.unsent = k.unsent \o Answer(call[c].kind, k.next, size)
    BY Sends
<1> DEFINE answer == Answer(call[c].kind, k.next, size)
<1>3. answer \in Seq(Message)
    <2>1. \A kind \in {"simple", "menu"}, txn \in Txn, items \in Nat :
              Answer(kind, txn, items) \in Seq(Message)
        BY AnswerIs
    <2>2. k.next \in Txn /\ call[c].kind \in {"simple", "menu"}
        BY <1>1, <1>2 DEF Client, Call
    <2> HIDE DEF k
    <2> QED
        BY <2>1, <2>2
<1>4. answer = Answer(new.kind, new.txn, new.size)
    BY <1>2
<1> HIDE DEF k, answer
<1>5. k.clean => Asked(sent, new)
    <2>1. k.clean => sent.unsent = <<>> \o answer /\ sent.stream = <<>>
        BY <1>1, <1>2 DEF Quiet, answer
    <2>2. <<>> \o answer = answer
        BY <1>3
    <2> QED
        BY <1>4, <2>1, <2>2 DEF Asked
<1>6. Underway(sent, new)
    BY <1>2, <1>5 DEF Underway
<1> QED
    BY <1>1, <1>2, <1>6, GoesOn

\* What a writing call knows of its client.
LEMMA Writing ==
    ASSUME CleanInv, NEW c \in Caller, call[c].pc = "writing"
    PROVE  /\ Uses(c) /\ ClientOf(c) \in Client /\ call[c] \in Call /\ call[c].player \in Player
           /\ call[c].items = <<>> /\ (ClientOf(c).clean => Asked(ClientOf(c), call[c]))
<1>1. TypeOK /\ CallerOK(c) /\ call[c].player \in Player /\ call[c] \in Call
    BY DEF CleanInv, CallerOK, Ended, TypeOK
<1>2. ClientOf(c) \in Client
    BY <1>1, ClientTyped
<1> QED
    BY <1>1, <1>2 DEF CallerOK, Uses

\* The client and the call after the buffer was written.
LEMMA Flushes ==
    ASSUME CleanInv, NEW c \in Caller, Flush(c)
    PROVE  /\ Uses(c) /\ ClientOf(c) \in Client /\ UNCHANGED <<lock, silent, cancels, closes>>
           /\ \E new \in Call, sent \in Client :
                 /\ Continues(c, new, sent)
                 /\ new.pc = "reading" /\ new.kind = call[c].kind /\ new.txn = call[c].txn
                 /\ new.items = <<>> /\ new.player = call[c].player /\ new.size = call[c].size
                 /\ sent.open = ClientOf(c).open /\ sent.clean = ClientOf(c).clean
                 /\ sent.unsent = <<>>
                 /\ sent.stream = IF ClientOf(c).open THEN ClientOf(c).stream \o ClientOf(c).unsent
                                   ELSE ClientOf(c).stream
<1> DEFINE k == ClientOf(c)
<1>1. call[c].pc = "writing" /\ UNCHANGED <<lock, silent, cancels, closes>>
    BY DEF Flush
<1>2. Uses(c) /\ k \in Client /\ call[c] \in Call /\ call[c].items = <<>>
    BY <1>1, Writing
<1> HIDE DEF k
<1> DEFINE stream == IF k.open THEN k.stream \o k.unsent ELSE k.stream
           new    == [call[c] EXCEPT !.pc = "reading"]
           filled == [k EXCEPT !.stream = stream]
           sent   == [filled EXCEPT !.unsent = <<>>]
<1>3. Continues(c, new, sent)
    <2>1. sent = [k EXCEPT !.stream = IF k.open THEN @ \o k.unsent ELSE @, !.unsent = <<>>]
        BY Zenon
    <2> HIDE DEF sent
    <2> QED
        BY <2>1 DEF Flush, k
<1>4. stream \in Seq(Message) /\ <<>> \in Seq(Message)
    BY <1>2 DEF Client
<1>stream. stream = IF k.open THEN k.stream \o k.unsent ELSE k.stream
    OBVIOUS
<1> HIDE DEF stream
<1>5. /\ filled \in Client /\ filled.open = k.open /\ filled.clean = k.clean
      /\ filled.stream = stream
    BY <1>2, <1>4 DEF Client
<1> HIDE DEF filled
<1>6. /\ sent \in Client /\ sent.open = k.open /\ sent.clean = k.clean
      /\ sent.stream = stream /\ sent.unsent = <<>>
    BY <1>4, <1>5 DEF Client
<1>7. /\ new \in Call /\ new.pc = "reading" /\ new.kind = call[c].kind /\ new.txn = call[c].txn
      /\ new.items = <<>> /\ new.player = call[c].player /\ new.size = call[c].size
    BY <1>2 DEF Call
<1> HIDE DEF new, sent
<1> QED
    BY <1>1, <1>2, <1>3, <1>6, <1>7, <1>stream DEF k

LEMMA FlushKeeps ==
    ASSUME CleanInv, NEW c \in Caller, Flush(c)
    PROVE  CleanInv' /\ Apart(c)
<1> DEFINE k == ClientOf(c)
<1>1. /\ Uses(c) /\ k \in Client /\ UNCHANGED <<lock, silent, cancels, closes>>
      /\ k.clean => Asked(k, call[c])
    BY Flushes, Writing DEF Flush
<1>2. PICK new \in Call, sent \in Client :
         /\ Continues(c, new, sent)
         /\ new.pc = "reading" /\ new.kind = call[c].kind /\ new.txn = call[c].txn
         /\ new.items = <<>> /\ new.player = call[c].player /\ new.size = call[c].size
         /\ sent.open = k.open /\ sent.clean = k.clean /\ sent.unsent = <<>>
         /\ sent.stream = IF k.open THEN k.stream \o k.unsent ELSE k.stream
    BY Flushes
<1> HIDE DEF k
<1> DEFINE answer == Answer(new.kind, new.txn, new.size)
           length == AnswerLen(new.kind, new.size)
<1>3. new.txn \in Txn /\ new.kind \in {"simple", "menu"} /\ new.size \in Nat
    BY <1>2, DatabaseAssumption DEF Call
<1>4. /\ answer \in Seq(Message) /\ Len(answer) = length
      /\ \A j \in 1..length : answer[j] = [kind |-> KindAt(new.kind, new.size, j), txn |-> new.txn]
    BY <1>3, AnswerIs
<1>5. length \in Nat \ {0}
    BY <1>3 DEF AnswerLen
<1>6. ASSUME k.clean
      PROVE  Remains(sent, new)
    <2>1. k.stream = <<>> /\ k.unsent = answer
        BY <1>1, <1>2, <1>6 DEF Asked
    <2>2. CASE k.open
        <3>1. sent.stream = answer /\ sent.open
            BY <1>2, <1>4, <2>1, <2>2
        <3>2. AnswerLen(new.kind, new.size) = length /\ Len(new.items) = 0
            BY <1>2
        <3>3. \A i \in 1..length :
                 answer[i] = [kind |-> KindAt(new.kind, new.size, i), txn |-> new.txn]
            BY <1>4
        <3> HIDE DEF answer, length
        <3>4. \A i \in 1..Len(sent.stream) :
                 sent.stream[i] = [kind |-> KindAt(new.kind, new.size, 0 + i), txn |-> new.txn]
            BY <1>4, <1>5, <3>1, <3>3
        <3>5. 0 \in Nat /\ 0 < length /\ 0 + Len(sent.stream) = length /\ length \in Nat
            BY <1>4, <1>5, <3>1
        <3>6. /\ 0 < AnswerLen(new.kind, new.size)
              /\ 0 + Len(sent.stream) = AnswerLen(new.kind, new.size)
              /\ 0 + Len(sent.stream) <= AnswerLen(new.kind, new.size)
            BY <3>2, <3>5
        <3>7. sent.unsent = <<>> /\ new.items = <<>>
            BY <1>2
        <3> QED
            BY <3>2, <3>4, <3>6, <3>7 DEF Remains
    <2>3. CASE ~k.open
        <3>1. sent.stream = <<>> /\ ~sent.open /\ Len(sent.stream) = 0 /\ Len(new.items) = 0
            BY <1>2, <2>1, <2>3
        <3>2. AnswerLen(new.kind, new.size) \in Nat \ {0}
            BY <1>5
        <3> QED
            BY <1>2, <3>1, <3>2 DEF Remains
    <2> QED
        BY <2>2, <2>3
<1>7. Underway(sent, new)
    BY <1>2, <1>6 DEF Underway
<1> QED
    BY <1>1, <1>2, <1>7, GoesOn

LEMMA FlushFailsKeeps ==
    ASSUME CleanInv, NEW c \in Caller, FlushFails(c)
    PROVE  CleanInv' /\ Apart(c)
<1> DEFINE old == ClientOf(c)
           k == [old EXCEPT !.unsent = <<>>]
<1>1. call[c].pc = "writing" /\ Ends(c, k, "err") /\ UNCHANGED <<silent, cancels, closes>>
    BY DEF FlushFails
<1>2. Uses(c) /\ old \in Client /\ (old.clean => old.stream = <<>>)
    BY <1>1, Writing DEF Asked
<1> HIDE DEF old
<1>3. k \in Client /\ (k.clean => Quiet(k))
    <2>1. <<>> \in Seq(Message)
        OBVIOUS
    <2>2. k \in Client /\ k.clean = old.clean /\ k.stream = old.stream /\ k.unsent = <<>>
        BY <1>2, <2>1 DEF Client
    <2> QED
        BY <1>2, <2>2 DEF Quiet
<1> HIDE DEF k
<1> QED
    BY <1>1, <1>2, <1>3, Stops

\* What a reading call knows of its client.
LEMMA Rest ==
    ASSUME CleanInv, NEW c \in Caller, call[c].pc = "reading"
    PROVE  /\ Uses(c) /\ ClientOf(c) \in Client /\ call[c] \in Call /\ call[c].player \in Player
           /\ ClientOf(c).clean => Remains(ClientOf(c), call[c])
<1>1. TypeOK /\ CallerOK(c) /\ call[c].player \in Player /\ call[c] \in Call
    BY DEF CleanInv, CallerOK, Ended, TypeOK
<1>2. ClientOf(c) \in Client
    BY <1>1, ClientTyped
<1> QED
    BY <1>1, <1>2 DEF CallerOK, Uses

LEMMA ReadTyped ==
    ASSUME NEW c \in Caller, ClientOf(c) \in Client, ClientOf(c).stream # <<>>
    PROVE  /\ Read(c) \in Client /\ Read(c).open = ClientOf(c).open
           /\ Read(c).clean = ClientOf(c).clean /\ Read(c).stream = Tail(ClientOf(c).stream)
           /\ NextMessage(c) = ClientOf(c).stream[1] /\ NextMessage(c) \in Message
           /\ Read(c).next = ClientOf(c).next /\ Read(c).unsent = ClientOf(c).unsent
<1> DEFINE k == ClientOf(c)
<1>1. k \in Client /\ k.stream # <<>> /\ k.stream \in Seq(Message)
    BY DEF Client
<1>2. Read(c) = [k EXCEPT !.stream = Tail(k.stream)] /\ NextMessage(c) = Head(k.stream)
    BY DEF Read, NextMessage
<1> HIDE DEF k
<1>3. Tail(k.stream) \in Seq(Message) /\ Head(k.stream) = k.stream[1] /\ k.stream[1] \in Message
    BY <1>1
<1>4. /\ [k EXCEPT !.stream = Tail(k.stream)] \in Client
      /\ [k EXCEPT !.stream = Tail(k.stream)].open = k.open
      /\ [k EXCEPT !.stream = Tail(k.stream)].clean = k.clean
      /\ [k EXCEPT !.stream = Tail(k.stream)].stream = Tail(k.stream)
      /\ [k EXCEPT !.stream = Tail(k.stream)].next = k.next
      /\ [k EXCEPT !.stream = Tail(k.stream)].unsent = k.unsent
    BY <1>1, <1>3 DEF Client
<1> QED
    BY <1>2, <1>3, <1>4 DEF k

LEMMA ReadItemKeeps ==
    ASSUME CleanInv, NEW c \in Caller, ReadItem(c)
    PROVE  CleanInv' /\ Apart(c)
<1> DEFINE k == ClientOf(c)
           new == [call[c] EXCEPT !.items = Collected(c)]
<1>1. /\ call[c].pc = "reading" /\ call[c].kind = "menu" /\ k.stream # <<>>
      /\ NextMessage(c).kind \in {"header", "item"}
      /\ Continues(c, new, Read(c)) /\ UNCHANGED <<lock, silent, cancels, closes>>
    BY DEF ReadItem, Reading
<1>2. /\ Uses(c) /\ k \in Client /\ call[c] \in Call /\ (k.clean => Remains(k, call[c]))
    BY <1>1, Rest
<1>3. /\ Read(c) \in Client /\ Read(c).open = k.open /\ Read(c).clean = k.clean
      /\ Read(c).stream = Tail(k.stream) /\ Read(c).unsent = k.unsent
      /\ NextMessage(c) = k.stream[1] /\ NextMessage(c) \in Message
    BY <1>1, <1>2, ReadTyped
<1>4. Collected(c) \in Seq(Txn)
    BY <1>2, <1>3 DEF Collected, Call, Message
<1>5. /\ new \in Call /\ new.pc = "reading" /\ new.player = call[c].player /\ new.kind = "menu"
      /\ new.txn = call[c].txn /\ new.size = call[c].size /\ new.items = Collected(c)
    BY <1>1, <1>2, <1>4 DEF Call
<1>6. k.stream \in Seq(Message) /\ call[c].items \in Seq(Txn) /\ call[c].size \in Nat
    BY <1>2, DatabaseAssumption DEF Client, Call
<1> HIDE DEF k, new
<1>7. ASSUME k.clean PROVE Remains(Read(c), new)
    <2> DEFINE size == call[c].size
               rest == Tail(k.stream)
    <2>unsent. Read(c).unsent = <<>>
        BY <1>2, <1>3, <1>7 DEF Remains
    <2>1. PICK m \in Nat :
              /\ m < AnswerLen(call[c].kind, size)
              /\ m + Len(k.stream) <= AnswerLen(call[c].kind, size)
              /\ k.open => m + Len(k.stream) = AnswerLen(call[c].kind, size)
              /\ \A i \in 1..Len(k.stream) :
                     k.stream[i] = [kind |-> KindAt(call[c].kind, size, m + i), txn |-> call[c].txn]
              /\ Len(call[c].items) = IF m = 0 THEN 0 ELSE m - 1
              /\ \A i \in 1..Len(call[c].items) : call[c].items[i] = call[c].txn
        BY <1>2, <1>7 DEF Remains
    <2> HIDE DEF size, rest
    <2>len. AnswerLen("menu", size) = size + 2 /\ call[c].kind = "menu" /\ size \in Nat
        BY <1>1, <1>6 DEF AnswerLen, size
    <2>2. /\ m \in 0..(size + 1) /\ m + Len(k.stream) <= size + 2
          /\ k.open => m + Len(k.stream) = size + 2
        BY <2>1, <2>len
    <2>3. Len(k.stream) \in Nat \ {0} /\ Len(call[c].items) \in Nat
        BY <1>1, <1>6
    <2>4. k.stream[1] = [kind |-> KindAt("menu", size, m + 1), txn |-> call[c].txn]
        BY <1>1, <2>1, <2>3
    <2>5. NextMessage(c).kind = KindAt("menu", size, m + 1) /\ NextMessage(c).txn = call[c].txn
        BY <1>3, <2>4
    <2>6. m + 1 # size + 2
        <3>1. KindAt("menu", size, size + 2) = "footer"
            BY <2>len DEF KindAt
        <3> QED
            BY <1>1, <2>5, <3>1
    <2>new. AnswerLen(new.kind, new.size) = size + 2
        BY <1>5, <2>len DEF size
    <2>7. m + 1 \in Nat /\ m + 1 < AnswerLen(new.kind, new.size)
        BY <2>new, <2>len, <2>2, <2>6
    <2>8. /\ Len(rest) = Len(k.stream) - 1
          /\ \A i \in 1..Len(rest) : rest[i] = k.stream[i + 1] /\ i + 1 \in 1..Len(k.stream)
        BY <1>6, <2>3 DEF rest
    <2>9. /\ (m + 1) + Len(rest) <= AnswerLen(new.kind, new.size)
          /\ k.open => (m + 1) + Len(rest) = AnswerLen(new.kind, new.size)
        <3>1. (m + 1) + Len(rest) = m + Len(k.stream)
            BY <2>3, <2>8
        <3> QED
            BY <2>new, <2>2, <3>1
    <2>10. ASSUME NEW i \in 1..Len(rest)
           PROVE  rest[i] = [kind |-> KindAt(new.kind, new.size, (m + 1) + i), txn |-> new.txn]
        <3>1. rest[i] = [kind |-> KindAt("menu", size, m + (i + 1)), txn |-> call[c].txn]
            BY <1>1, <2>1, <2>8
        <3>2. m + (i + 1) = (m + 1) + i
            BY <2>2, <2>3, <2>8
        <3> QED
            BY <1>5, <3>1, <3>2 DEF size
    <2>11. /\ Len(new.items) = IF m + 1 = 0 THEN 0 ELSE (m + 1) - 1
           /\ \A i \in 1..Len(new.items) : new.items[i] = new.txn
        <3>1. CASE m = 0
            <4>1. NextMessage(c).kind = "header"
                BY <2>len, <2>5, <3>1 DEF KindAt
            <4>2. new.items = call[c].items
                BY <1>5, <4>1 DEF Collected
            <4> QED
                BY <1>5, <2>1, <3>1, <4>2
        <3>2. CASE m # 0
            <4>1. NextMessage(c).kind = "item"
                BY <2>len, <2>2, <2>5, <2>6, <3>2 DEF KindAt
            <4>2. new.items = Append(call[c].items, call[c].txn)
                BY <1>5, <2>5, <4>1 DEF Collected
            <4>3. call[c].txn \in Txn
                BY <1>2 DEF Call
            <4>4. /\ Len(new.items) = Len(call[c].items) + 1
                  /\ \A i \in 1..Len(call[c].items) : new.items[i] = call[c].items[i]
                  /\ new.items[Len(call[c].items) + 1] = call[c].txn
                BY <1>6, <4>2, <4>3
            <4> QED
                BY <1>5, <2>1, <2>2, <2>3, <3>2, <4>4
        <3> QED
            BY <3>1, <3>2
    <2> QED
        BY <1>3, <2>unsent, <2>7, <2>9, <2>10, <2>11 DEF Remains, rest
<1>8. Underway(Read(c), new)
    BY <1>3, <1>5, <1>7 DEF Underway
<1> QED
    BY <1>1, <1>2, <1>3, <1>5, <1>8, GoesOn

\* On a clean connection the last message read is the last of the answer.
LEMMA LastRead ==
    ASSUME CleanInv, NEW c \in Caller, call[c].pc = "reading", ClientOf(c).stream # <<>>,
           ClientOf(c).clean,
           \/ call[c].kind = "simple"
           \/ call[c].kind = "menu" /\ NextMessage(c).kind \in {"footer", "single"}
    PROVE  /\ Read(c).stream = <<>>
           /\ NextMessage(c).txn = call[c].txn
           /\ call[c].kind = "menu" => NextMessage(c).kind = "footer"
           /\ call[c].kind = "menu" => Len(call[c].items) = call[c].size
           /\ \A i \in 1..Len(call[c].items) : call[c].items[i] = call[c].txn
<1> DEFINE k == ClientOf(c)
           size == call[c].size
<1>1. k \in Client /\ call[c] \in Call /\ Remains(k, call[c]) /\ k.stream # <<>>
    BY Rest
<1>2. k.stream \in Seq(Message) /\ size \in Nat /\ Len(k.stream) \in Nat \ {0}
    BY <1>1, DatabaseAssumption DEF Client, Call
<1>3. /\ Read(c).stream = Tail(k.stream) /\ NextMessage(c) = k.stream[1]
    BY <1>1, ReadTyped
<1> HIDE DEF k
<1>4. PICK m \in Nat :
          /\ m < AnswerLen(call[c].kind, size)
          /\ m + Len(k.stream) <= AnswerLen(call[c].kind, size)
          /\ \A i \in 1..Len(k.stream) :
                 k.stream[i] = [kind |-> KindAt(call[c].kind, size, m + i), txn |-> call[c].txn]
          /\ Len(call[c].items) = IF m = 0 THEN 0 ELSE m - 1
          /\ \A i \in 1..Len(call[c].items) : call[c].items[i] = call[c].txn
    BY <1>1 DEF Remains
<1> HIDE DEF size
<1>5. NextMessage(c) = [kind |-> KindAt(call[c].kind, size, m + 1), txn |-> call[c].txn]
    BY <1>2, <1>3, <1>4
<1>6. CASE call[c].kind = "simple"
    <2>1. AnswerLen(call[c].kind, size) = 1
        BY <1>6 DEF AnswerLen
    <2>2. m = 0 /\ m + Len(k.stream) <= 1
        BY <1>4, <2>1
    <2>3. Len(k.stream) <= 1
        BY <1>2, <2>2
    <2>4. Tail(k.stream) = <<>>
        BY <1>1, <1>2, <2>3
    <2> QED
        BY <1>3, <1>4, <1>5, <1>6, <2>4
<1>7. CASE call[c].kind = "menu" /\ NextMessage(c).kind \in {"footer", "single"}
    <2>len. AnswerLen(call[c].kind, size) = size + 2
        BY <1>7 DEF AnswerLen
    <2>1. m \in 0..(size + 1) /\ m + Len(k.stream) <= size + 2
        BY <1>2, <1>4, <2>len
    <2>2. m + 1 = size + 2 /\ NextMessage(c).kind = "footer"
        <3>1. NextMessage(c).kind = KindAt("menu", size, m + 1)
            BY <1>5, <1>7
        <3> QED
            BY <1>2, <1>7, <2>1, <3>1, Zenon DEF KindAt
    <2>3. Len(k.stream) <= 1 /\ m # 0 /\ m - 1 = size
        BY <1>2, <2>1, <2>2
    <2>4. Tail(k.stream) = <<>>
        BY <1>1, <1>2, <2>3
    <2>5. Len(call[c].items) = call[c].size
        BY <1>4, <2>3 DEF size
    <2> QED
        BY <1>3, <1>4, <1>5, <1>7, <2>2, <2>4, <2>5
<1> QED
    BY <1>6, <1>7

LEMMA LastReadKeeps ==
    ASSUME CleanInv, NEW c \in Caller, ReadSimple(c) \/ ReadLast(c) \/ ReadClosed(c)
    PROVE  CleanInv' /\ Apart(c)
<1>1. call[c].pc = "reading" /\ UNCHANGED <<silent, cancels, closes>>
    BY DEF ReadSimple, ReadLast, ReadClosed, Reading
<1>2. Uses(c) /\ ClientOf(c) \in Client
    BY <1>1, Rest
<1>3. CASE ReadSimple(c) \/ ReadLast(c)
    <2>1. /\ ClientOf(c).stream # <<>>
          /\ \/ call[c].kind = "simple"
             \/ call[c].kind = "menu" /\ NextMessage(c).kind \in {"footer", "single"}
          /\ \E result \in {"ok", "err"} : Ends(c, Read(c), result)
        BY <1>3 DEF ReadSimple, ReadLast, Reading
    <2>2. Read(c) \in Client /\ (Read(c).clean => Quiet(Read(c)))
        <3>1. Read(c) \in Client /\ Read(c).clean = ClientOf(c).clean /\ Read(c).unsent = ClientOf(c).unsent
            BY <1>2, <2>1, ReadTyped
        <3>2. ClientOf(c).clean => ClientOf(c).unsent = <<>> /\ Read(c).stream = <<>>
            BY <1>1, <2>1, Rest, LastRead DEF Remains
        <3> QED
            BY <3>1, <3>2 DEF Quiet
    <2> QED
        BY <1>1, <1>2, <2>1, <2>2, Stops
<1>4. CASE ReadClosed(c)
    <2>1. Ends(c, ClientOf(c), "err") /\ ClientOf(c).stream = <<>>
        BY <1>4 DEF ReadClosed
    <2>2. ClientOf(c).clean => Quiet(ClientOf(c))
        BY <1>1, <2>1, Rest DEF Remains, Quiet
    <2> QED
        BY <1>1, <1>2, <2>1, <2>2, Stops
<1> QED
    BY <1>3, <1>4

LEMMA InsertKeeps ==
    ASSUME CleanInv, NEW c \in Caller, Insert(c)
    PROVE  CleanInv' /\ Apart(c)
<1> DEFINE new  == [NoCall EXCEPT !.pc = "ok"]
           kept == [call[c].client EXCEPT !.fresh = TRUE]
<1>1. /\ TypeOK /\ IdleEmpty /\ CallerOK(c) /\ call[c].pc = "inserting" /\ call[c].player \in Player
      /\ lock = NoCaller /\ lock # c /\ call[c].client \in Client /\ NoCall \in Call
      /\ call[c].client.clean => Quiet(call[c].client)
    BY DatabaseAssumption, NoneTyped
    DEF Insert, CleanInv, CallerOK, Ended, TypeOK, Call, ClientOf, Pooled
<1>2. /\ pool' = [pool EXCEPT ![call[c].player] = kept] /\ call' = [call EXCEPT ![c] = new]
      /\ UNCHANGED <<lock, silent, cancels, closes>>
    BY DEF Insert
<1>3. kept \in Client /\ (kept.clean => Quiet(kept))
    BY <1>1 DEF Client, Quiet
<1>4. new \in Call /\ new.pc = "ok"
    BY <1>1 DEF Call
<1> HIDE DEF kept, new
<1>5. \A p \in Player : pool'[p].clean => Quiet(pool'[p])
    BY <1>1, <1>2, <1>3 DEF TypeOK, IdleEmpty, InUse
<1>6. Apart(c) /\ Held' /\ IdleEmpty' /\ call'[c] = new
    BY <1>1, <1>2, <1>5, Outside
<1>7. TypeOK'
    BY <1>1, <1>2, <1>3, <1>4 DEF TypeOK
<1>8. CallerOK(c)'
    BY <1>4, <1>6 DEF CallerOK, Ended
<1> QED
    BY <1>6, <1>7, <1>8, Gathered

LEMMA CancelKeeps ==
    ASSUME CleanInv, NEW c \in Caller, Cancel(c)
    PROVE  CleanInv' /\ Apart(c)
<1>1. /\ TypeOK /\ Held /\ IdleEmpty /\ CallerOK(c) /\ call[c].player \in Player
      /\ NoCall \in Call /\ NoCall.pc = "out" /\ NoCaller \notin Caller
      /\ call' = [call EXCEPT ![c] = NoCall] /\ UNCHANGED <<silent, closes>>
      /\ cancels < MaxCancels /\ cancels' = cancels + 1
    BY DatabaseAssumption, NoneTyped DEF Cancel, CleanInv, CallerOK, NoCall
<1>2. cancels' \in 0..MaxCancels
    BY <1>1, DatabaseAssumption DEF TypeOK
<1>3. CASE lock = c
    <2> DEFINE k == [pool[call[c].player] EXCEPT !.clean = @ /\ call[c].pc = "ready"]
    <2>1. /\ lock' = NoCaller /\ pool' = [pool EXCEPT ![call[c].player] = k]
        BY <1>3 DEF Cancel, Pooled
    <2>2. pool[call[c].player] \in Client
        BY <1>1, NoneTyped DEF TypeOK
    <2>3. k \in Client /\ (k.clean => Quiet(k))
        <3>1. ClientOf(c) = pool[call[c].player]
            BY <1>3 DEF ClientOf, Pooled
        <3>2. pool[call[c].player].clean /\ call[c].pc = "ready" => Quiet(pool[call[c].player])
            BY <1>1, <3>1 DEF CallerOK
        <3> QED
            BY <2>2, <3>2 DEF Client, Quiet
    <2> HIDE DEF k
    <2>4. \A d \in Caller \ {c} : lock # d /\ lock' # d /\ call'[d] = call[d]
        BY <1>1, <1>3, <2>1 DEF TypeOK
    <2>5. Apart(c)
        BY <2>4 DEF Apart, ClientOf, Pooled
    <2>6. Held' /\ IdleEmpty'
        BY <1>1, <1>3, <2>1, <2>3 DEF Held, IdleEmpty, InUse, TypeOK
    <2>7. TypeOK'
        BY <1>1, <1>2, <2>1, <2>3 DEF TypeOK
    <2>8. CallerOK(c)'
        BY <1>1 DEF CallerOK, Ended, TypeOK
    <2> QED
        BY <2>5, <2>6, <2>7, <2>8, Gathered
<1>4. CASE lock # c
    <2>1. UNCHANGED <<pool, lock>>
        BY <1>4 DEF Cancel, Pooled
    <2>2. Apart(c) /\ Held' /\ IdleEmpty' /\ call'[c] = NoCall
        BY <1>1, <1>4, <2>1, Outside
    <2>3. TypeOK'
        BY <1>1, <1>2, <2>1 DEF TypeOK
    <2>4. CallerOK(c)'
        BY <1>1, <2>2 DEF CallerOK, Ended
    <2> QED
        BY <2>2, <2>3, <2>4, Gathered
<1> QED
    BY <1>3, <1>4

LEMMA StepKeeps ==
    ASSUME CleanInv, NEW c \in Caller, Step(c)
    PROVE  CleanInv' /\ Apart(c)
BY LockKeeps, ConnectKeeps, SendKeeps, FlushKeeps, FlushFailsKeeps, ReadItemKeeps, LastReadKeeps, InsertKeeps, CancelKeeps
DEF Step, Proceeds, Reads

-----------------------------------------------------------------------------
(* The other steps *)

\* Closing a connection only shortens its stream.
LEMMA ClosedIs ==
    ASSUME NEW k \in Client, NEW cut \in Closed(k)
    PROVE  /\ cut \in Client /\ cut.clean = k.clean /\ cut.open = FALSE
           /\ Len(cut.stream) <= Len(k.stream)
           /\ \A i \in 1..Len(cut.stream) : cut.stream[i] = k.stream[i]
           /\ cut.unsent = k.unsent
           /\ Quiet(k) => Quiet(cut)
           /\ \A own \in Call : (Remains(k, own) => Remains(cut, own))
                               /\ (Asked(k, own) => Asked(cut, own))
<1>1. PICK n \in 0..Len(k.stream) :
          cut = [k EXCEPT !.open = FALSE, !.stream = SubSeq(k.stream, 1, n)]
    BY DEF Closed
<1>2. k.stream \in Seq(Message) /\ Len(k.stream) \in Nat
    BY DEF Client
<1> DEFINE left == SubSeq(k.stream, 1, n)
           shut == [k EXCEPT !.open = FALSE]
<1>3. left \in Seq(Message) /\ Len(left) = n /\ \A i \in 1..n : left[i] = k.stream[i]
    BY <1>2
<1>4. cut = [shut EXCEPT !.stream = left]
    BY <1>1
<1> HIDE DEF left
<1>5. shut \in Client /\ shut.open = FALSE /\ shut.clean = k.clean /\ shut.unsent = k.unsent
    BY DEF Client
<1> HIDE DEF shut
<1>6. /\ cut \in Client /\ cut.open = FALSE /\ cut.clean = k.clean /\ cut.stream = left
      /\ cut.unsent = k.unsent
    BY <1>3, <1>4, <1>5 DEF Client
<1>7. /\ Len(cut.stream) = n /\ n \in Nat /\ n <= Len(k.stream)
      /\ \A i \in 1..n : cut.stream[i] = k.stream[i] /\ i \in 1..Len(k.stream)
    BY <1>2, <1>3, <1>6
<1>8. k.stream = <<>> => cut.stream = <<>>
    BY <1>3, <1>6, <1>7
<1>9. ASSUME NEW own \in Call, Remains(k, own) PROVE Remains(cut, own)
    <2>len. AnswerLen(own.kind, own.size) \in Nat
        BY DatabaseAssumption DEF AnswerLen, Call
    <2>1. PICK m \in Nat :
              /\ m < AnswerLen(own.kind, own.size)
              /\ m + Len(k.stream) <= AnswerLen(own.kind, own.size)
              /\ \A i \in 1..Len(k.stream) :
                     k.stream[i] = [kind |-> KindAt(own.kind, own.size, m + i), txn |-> own.txn]
              /\ Len(own.items) = IF m = 0 THEN 0 ELSE m - 1
              /\ \A i \in 1..Len(own.items) : own.items[i] = own.txn
        BY <1>9 DEF Remains
    <2>2. m + Len(cut.stream) <= AnswerLen(own.kind, own.size)
        BY <1>2, <1>7, <2>len, <2>1
    <2>3. ASSUME NEW i \in 1..Len(cut.stream)
          PROVE  cut.stream[i] = [kind |-> KindAt(own.kind, own.size, m + i), txn |-> own.txn]
        BY <1>7, <2>1
    <2> QED
        BY <1>6, <1>9, <2>1, <2>2, <2>3 DEF Remains
<1>10. (Quiet(k) => Quiet(cut)) /\ \A own \in Call : Asked(k, own) => Asked(cut, own)
    BY <1>6, <1>8 DEF Quiet, Asked
<1> QED
    BY <1>6, <1>7, <1>9, <1>10

\* A step that leaves the calls alone, and the client in use.
LEMMA PoolOnly ==
    ASSUME CleanInv, UNCHANGED <<lock, call>>, TypeOK', IdleEmpty',
           \A p \in Player : InUse(p) => pool'[p] = pool[p]
    PROVE  CleanInv'
<1>1. Held' /\ \A c \in Caller : call[c] \in Call
    BY DEF CleanInv, Held, TypeOK
<1>2. ASSUME NEW c \in Caller PROVE CallerOK(c)'
    <2>1. CallerOK(c) /\ (~Ended(c) => call[c].player \in Player) /\ c # NoCaller
        BY DatabaseAssumption DEF CleanInv, CallerOK
    <2>2. Uses(c) => ClientOf(c)' = ClientOf(c)
        BY <2>1 DEF ClientOf, Pooled, InUse, Uses, Ended
    <2>3. CASE Uses(c)
        <3>1. ClientOf(c)' = ClientOf(c) /\ call'[c] = call[c]
            BY <2>2, <2>3
        <3> HIDE DEF ClientOf
        <3> QED
            BY <2>1, <3>1 DEF CallerOK, Ended
    <2>4. CASE ~Uses(c)
        BY <2>1, <2>4 DEF CallerOK, Ended, Uses
    <2> QED
        BY <2>3, <2>4
<1> QED
    BY <1>1, <1>2 DEF CleanInv

LEMMA OthersKeep ==
    ASSUME CleanInv,
           \/ \E p \in Player : Remove(p) \/ GoesIdle(p) \/ FallsSilent(p)
           \/ Clear \/ UNCHANGED vars
    PROVE  CleanInv'
<1>1. /\ TypeOK /\ IdleEmpty /\ pool \in [Player -> Client] /\ NoClient \in Client
      /\ Client \union {NoClient} = Client /\ NoClient.clean = FALSE
    BY NoneTyped DEF CleanInv, TypeOK, NoClient
<1>2. CASE Clear \/ \E p \in Player : Remove(p)
    <2>1. /\ lock = NoCaller /\ pool' \in [Player -> Client] /\ UNCHANGED <<lock, call, silent, cancels, closes>>
          /\ \A q \in Player : pool'[q] = pool[q] \/ pool'[q] = NoClient
        BY <1>1, <1>2 DEF Remove, Clear
    <2>2. TypeOK' /\ IdleEmpty'
        BY <1>1, <2>1 DEF TypeOK, IdleEmpty, InUse
    <2> QED
        BY <2>1, <2>2, PoolOnly DEF InUse
<1>3. ASSUME NEW p \in Player, GoesIdle(p) PROVE CleanInv'
    <2> DEFINE k == [pool[p] EXCEPT !.fresh = FALSE]
    <2>1. /\ ~InUse(p) /\ pool' = [pool EXCEPT ![p] = k] /\ UNCHANGED <<lock, call, silent, cancels, closes>>
        BY <1>3 DEF GoesIdle, InUse
    <2>2. k \in Client /\ k.clean = pool[p].clean /\ (Quiet(pool[p]) => Quiet(k))
        BY <1>1 DEF Client, Quiet
    <2> HIDE DEF k
    <2>3. TypeOK' /\ IdleEmpty' /\ \A q \in Player : InUse(q) => pool'[q] = pool[q]
        BY <1>1, <2>1, <2>2 DEF TypeOK, IdleEmpty, InUse
    <2> QED
        BY <2>1, <2>3, PoolOnly
<1>4. CASE UNCHANGED vars \/ \E p \in Player : FallsSilent(p)
    <2>1. UNCHANGED <<pool, lock, call, cancels, closes>> /\ silent' \in SUBSET Player
        BY <1>1, <1>4 DEF FallsSilent, TypeOK, vars
    <2>2. TypeOK' /\ IdleEmpty'
        BY <1>1, <2>1 DEF TypeOK, IdleEmpty, InUse
    <2> QED
        BY <2>1, <2>2, PoolOnly
<1> QED
    BY <1>2, <1>3, <1>4

\* A connection is closed: every stream is what it was, or the beginning of it.
LEMMA ClosesCuts ==
    ASSUME TypeOK, Closes
    PROVE  /\ UNCHANGED <<lock, silent, cancels>>
           /\ \A p \in Player : pool'[p] = pool[p] \/ pool'[p] \in Closed(pool[p])
           /\ pool' \in [Player -> Client] /\ call' \in [Caller -> Call]
           /\ \A c \in Caller : /\ call'[c].pc = call[c].pc /\ call'[c].player = call[c].player
                               /\ call'[c].kind = call[c].kind /\ call'[c].txn = call[c].txn
                               /\ call'[c].items = call[c].items /\ call'[c].size = call[c].size
                               /\ \/ call'[c].client = call[c].client
                                  \/ call'[c].client \in Closed(call[c].client)
           /\ closes' \in 0..MaxCloses
<1>1. /\ pool \in [Player -> Client] /\ call \in [Caller -> Call] /\ UNCHANGED <<lock, silent, cancels>>
      /\ closes' \in 0..MaxCloses
    BY NoneTyped, DatabaseAssumption DEF TypeOK, Closes
<1>2. ASSUME NEW p \in Player, NEW k \in Closed(pool[p]), pool' = [pool EXCEPT ![p] = k], call' = call
      PROVE  /\ \A q \in Player : pool'[q] = pool[q] \/ pool'[q] \in Closed(pool[q])
             /\ pool' \in [Player -> Client]
    <2>1. k \in Client
        BY <1>1, ClosedIs
    <2> QED
        BY <1>1, <1>2, <2>1
<1>3. ASSUME NEW c \in Caller, NEW k \in Closed(call[c].client),
             call' = [call EXCEPT ![c].client = k], pool' = pool
      PROVE  /\ call' \in [Caller -> Call]
             /\ \A d \in Caller : /\ call'[d].pc = call[d].pc /\ call'[d].player = call[d].player
                                 /\ call'[d].kind = call[d].kind /\ call'[d].txn = call[d].txn
                                 /\ call'[d].items = call[d].items /\ call'[d].size = call[d].size
                                 /\ \/ call'[d].client = call[d].client
                                    \/ call'[d].client \in Closed(call[d].client)
    <2> DEFINE cut == [call[c] EXCEPT !.client = k]
    <2>1. call[c].client \in Client /\ k \in Client
        <3>1. call[c].client \in Client
            BY <1>1, NoneTyped DEF Call
        <3> QED
            BY <3>1, ClosedIs
    <2>2. /\ cut \in Call /\ cut.client = k /\ cut.pc = call[c].pc /\ cut.player = call[c].player
          /\ cut.kind = call[c].kind /\ cut.txn = call[c].txn /\ cut.items = call[c].items
          /\ cut.size = call[c].size
        BY <1>1, <2>1 DEF Call
    <2>3. call' = [call EXCEPT ![c] = cut]
        BY <1>3
    <2> HIDE DEF cut
    <2>4. call'[c] = cut /\ (\A d \in Caller \ {c} : call'[d] = call[d]) /\ call' \in [Caller -> Call]
        BY <1>1, <2>2, <2>3
    <2> QED
        BY <1>3, <2>2, <2>4
<1>4. CASE \E p \in Player : \E k \in Closed(pool[p]) : pool' = [pool EXCEPT ![p] = k] /\ call' = call
    <2>1. PICK p \in Player :
              \E k \in Closed(pool[p]) : pool' = [pool EXCEPT ![p] = k] /\ call' = call
        BY <1>4
    <2>2. PICK k \in Closed(pool[p]) : pool' = [pool EXCEPT ![p] = k] /\ call' = call
        BY <2>1
    <2> QED
        BY <1>1, <1>2, <2>2
<1>5. CASE \E c \in Caller : \E k \in Closed(call[c].client) :
              call' = [call EXCEPT ![c].client = k] /\ pool' = pool
    <2>1. PICK c \in Caller : \E k \in Closed(call[c].client) :
              call' = [call EXCEPT ![c].client = k] /\ pool' = pool
        BY <1>5
    <2>2. PICK k \in Closed(call[c].client) :
              call' = [call EXCEPT ![c].client = k] /\ pool' = pool
        BY <2>1
    <2> QED
        BY <1>1, <1>3, <2>2
<1> QED
    BY <1>4, <1>5 DEF Closes

LEMMA ClosesKeeps ==
    ASSUME CleanInv, Closes
    PROVE  CleanInv'
<1> DEFINE Cut(new, old) == new = old \/ new \in Closed(old)
<1>1. /\ TypeOK /\ Held /\ IdleEmpty /\ UNCHANGED <<lock, silent, cancels>>
      /\ \A p \in Player : Cut(pool'[p], pool[p])
      /\ pool' \in [Player -> Client] /\ call' \in [Caller -> Call]
      /\ \A c \in Caller : /\ call'[c].pc = call[c].pc /\ call'[c].player = call[c].player
                          /\ call'[c].kind = call[c].kind /\ call'[c].txn = call[c].txn
                          /\ call'[c].items = call[c].items /\ call'[c].size = call[c].size
                          /\ Cut(call'[c].client, call[c].client)
      /\ closes' \in 0..MaxCloses
    BY ClosesCuts DEF CleanInv
<1>2. ASSUME NEW k \in Client, NEW new, Cut(new, k), NEW own \in Call
      PROVE  /\ new.clean = k.clean /\ (Quiet(k) => Quiet(new))
             /\ Remains(k, own) => Remains(new, own)
             /\ Asked(k, own) => Asked(new, own)
    <2>1. CASE new = k
        BY <2>1
    <2>2. CASE new \in Closed(k)
        <3>1. new.clean = k.clean /\ (Quiet(k) => Quiet(new))
            BY <2>2, ClosedIs
        <3>2. \A any \in Call : (Remains(k, any) => Remains(new, any))
                               /\ (Asked(k, any) => Asked(new, any))
            BY <2>2, ClosedIs
        <3>3. (Remains(k, own) => Remains(new, own)) /\ (Asked(k, own) => Asked(new, own))
            BY <3>2, Zenon
        <3> QED
            BY <3>1, <3>3
    <2> QED
        BY <1>2, <2>1, <2>2
<1> HIDE DEF Cut
<1>3. /\ pool \in [Player -> Client] /\ call \in [Caller -> Call] /\ NoCaller \notin Caller
      /\ lock \in Caller \union {NoCaller}
    BY <1>1, NoneTyped, DatabaseAssumption DEF TypeOK
<1>4. TypeOK'
    BY <1>1 DEF TypeOK
<1>5. Held'
    BY <1>1, <1>3 DEF Held
<1>6. IdleEmpty'
    <2>1. \A p \in Player : InUse(p)' = InUse(p)
        BY <1>1, <1>3 DEF InUse
    <2>2. \A p \in Player : /\ pool'[p].clean = pool[p].clean
                            /\ Quiet(pool[p]) => Quiet(pool'[p])
        BY <1>1, <1>2, <1>3, NoneTyped
    <2> QED
        BY <1>1, <2>1, <2>2 DEF IdleEmpty
<1>7. ASSUME NEW c \in Caller PROVE CallerOK(c)'
    <2>1. CallerOK(c) /\ call[c] \in Call
        BY <1>3 DEF CleanInv
    <2>2. CASE Uses(c)
        <3>1. call[c].player \in Player
            BY <2>1, <2>2 DEF CallerOK, Ended, Uses
        <3>2. Cut(ClientOf(c)', ClientOf(c)) /\ ClientOf(c) \in Client
            BY <1>1, <1>3, <2>1, <3>1, ClientTyped DEF ClientOf, Pooled
        <3>3. /\ ClientOf(c)'.clean = ClientOf(c).clean
              /\ Quiet(ClientOf(c)) => Quiet(ClientOf(c)')
              /\ Remains(ClientOf(c), call[c]) => Remains(ClientOf(c)', call[c])
              /\ Asked(ClientOf(c), call[c]) => Asked(ClientOf(c)', call[c])
            BY <1>2, <2>1, <3>2, Zenon
        <3>4. /\ Remains(ClientOf(c)', call[c]) => Remains(ClientOf(c)', call'[c])
              /\ Asked(ClientOf(c)', call[c]) => Asked(ClientOf(c)', call'[c])
            BY <1>1, RequestSame
        <3> QED
            BY <1>1, <2>1, <3>1, <3>3, <3>4 DEF CallerOK, Ended
    <2>3. CASE ~Uses(c)
        BY <1>1, <2>1, <2>3 DEF CallerOK, Ended, Uses
    <2> QED
        BY <2>2, <2>3
<1> QED
    BY <1>4, <1>5, <1>6, <1>7 DEF CleanInv

LEMMA CleanInit == Init => CleanInv
<1> SUFFICES ASSUME Init PROVE CleanInv
    OBVIOUS
<1>1. TypeOK
    BY NoneTyped, DatabaseAssumption DEF Init, TypeOK
<1>2. Held /\ IdleEmpty
    BY DEF Init, Held, IdleEmpty, NoClient
<1>3. \A c \in Caller : CallerOK(c)
    BY DEF Init, CallerOK, Ended, NoCall
<1> QED
    BY <1>1, <1>2, <1>3 DEF CleanInv

LEMMA CleanNext == CleanInv /\ [Next]_vars => CleanInv'
<1> SUFFICES ASSUME CleanInv, [Next]_vars PROVE CleanInv'
    OBVIOUS
<1>1. CASE \E c \in Caller, p \in Player, kind \in {"simple", "menu"} : Begin(c, p, kind)
    BY <1>1, BeginKeeps
<1>2. CASE \E c \in Caller : Lock(c) \/ Proceeds(c) \/ Insert(c) \/ Cancel(c)
    BY <1>2, StepKeeps DEF Step
<1>3. CASE \E p \in Player : Remove(p) \/ GoesIdle(p) \/ FallsSilent(p)
    BY <1>3, OthersKeep
<1>4. CASE Clear
    BY <1>4, OthersKeep
<1>5. CASE Closes
    BY <1>5, ClosesKeeps
<1>6. CASE UNCHANGED vars
    BY <1>6, OthersKeep
<1> QED
    BY <1>1, <1>2, <1>3, <1>4, <1>5, <1>6 DEF Next

LEMMA CleanAlways == Spec => []CleanInv
BY CleanInit, CleanNext, PTL DEF Spec

\* The type invariant.
THEOREM DatabaseTypeOK == Spec => []TypeOK
BY CleanAlways, PTL DEF CleanInv

-----------------------------------------------------------------------------
(* Failures *)

LEMMA EndsResult ==
    ASSUME TypeOK, NEW c \in Caller, NEW k, NEW result \in {"ok", "err"}, Ends(c, k, result)
    PROVE  call'[c].pc = "err" => result = "err"
<1>1. call \in [Caller -> Call]
    BY DEF TypeOK
<1> DEFINE ended == [NoCall EXCEPT !.pc = result]
           pooling == [NoCall EXCEPT !.pc = "inserting", !.client = k, !.player = call[c].player]
           failed == [NoCall EXCEPT !.pc = "err"]
<1>2. ended.pc = result /\ pooling.pc = "inserting"
    BY NoCallWith
<1>3. call' = [call EXCEPT ![c] = ended] \/ (call' = [call EXCEPT ![c] = pooling] /\ result = "ok")
      \/ result = "err"
    BY DEF Ends
<1> HIDE DEF ended, pooling
<1>4. call'[c] = ended \/ call'[c] = pooling \/ result = "err"
    BY <1>1, <1>3
<1> QED
    BY <1>2, <1>4

LEMMA EndsErr ==
    ASSUME TypeOK, NEW c \in Caller, NEW k, Ends(c, k, "err")
    PROVE  call'[c].pc = "err"
<1> DEFINE failed == [NoCall EXCEPT !.pc = "err"]
<1>1. call \in [Caller -> Call] /\ failed.pc = "err"
    BY NoCallWith DEF TypeOK
<1>2. call' = [call EXCEPT ![c] = failed]
    BY DEF Ends
<1> HIDE DEF failed
<1> QED
    BY <1>1, <1>2

\* A request fails only because its connection was closed or an earlier call on it was
\* dropped: the calls that end, whatever way, leave nothing that hurts the next one.
THEOREM DatabaseFailsForAReason == Spec => FailsForAReason
<1>1. ASSUME CleanInv, NEW c \in Caller, Reads(c), call'[c].pc = "err",
             ClientOf(c).clean, ClientOf(c).open
      PROVE  FALSE
    <2>1. TypeOK /\ call[c].pc = "reading"
        BY <1>1 DEF CleanInv, Reads, ReadSimple, ReadItem, ReadLast, ReadClosed, Reading
    <2>2. CASE ReadSimple(c)
        <3>1. /\ call[c].kind = "simple" /\ ClientOf(c).stream # <<>>
              /\ Ends(c, Read(c), IF NextMessage(c).txn = call[c].txn THEN "ok" ELSE "err")
            BY <2>2 DEF ReadSimple, Reading
        <3>2. NextMessage(c).txn = call[c].txn
            BY <1>1, <2>1, <3>1, LastRead
        <3>3. Ends(c, Read(c), "ok")
            BY <3>1, <3>2
        <3> QED
            BY <1>1, <2>1, <3>3, EndsResult
    <2>3. CASE ReadItem(c)
        <3> DEFINE new == [call[c] EXCEPT !.items = Collected(c)]
        <3>1. /\ Continues(c, new, Read(c)) /\ lock' = lock /\ ClientOf(c).stream # <<>>
              /\ NextMessage(c).kind \in {"header", "item"}
            BY <2>3 DEF ReadItem, Reading
        <3>2. Uses(c) /\ ClientOf(c) \in Client /\ call[c] \in Call
            BY <1>1, <2>1, Rest
        <3>3. Read(c) \in Client /\ NextMessage(c) \in Message
            BY <3>1, <3>2, ReadTyped
        <3>4. Collected(c) \in Seq(Txn)
            BY <3>2, <3>3 DEF Collected, Call, Message
        <3>5. new \in Call /\ new.pc = "reading" /\ new.player = call[c].player
            BY <2>1, <3>2, <3>4 DEF Call
        <3> HIDE DEF new
        <3>6. call'[c].pc = "reading"
            BY <1>1, <3>1, <3>2, <3>3, <3>5, Continued
        <3> QED
            BY <1>1, <3>6
    <2>4. CASE ReadLast(c)
        BY <1>1, <2>1, <2>4, EndsResult DEF ReadLast
    <2>5. CASE ReadClosed(c)
        BY <1>1, <2>5 DEF ReadClosed
    <2> QED
        BY <1>1, <2>2, <2>3, <2>4, <2>5 DEF Reads
<1>2. CleanInv =>
          [\A c \in Caller : (FlushFails(c) \/ Reads(c)) /\ call'[c].pc = "err"
               => ~ClientOf(c).clean \/ ~ClientOf(c).open]_vars
    BY <1>1 DEF FlushFails
<1> QED
    BY <1>2, CleanAlways, PTL DEF FailsForAReason

-----------------------------------------------------------------------------
(***************************************************************************)
(* Answers.  A simple request that meets a message with its transaction    *)
(* takes it for its answer, so the theorem needs that no transaction is    *)
(* given out again while a message under it is to come.  They are given    *)
(* out in turn: one comes round after TxnModulus requests on a connection. *)
(***************************************************************************)
\* No message is under transaction txn.
Without(messages, txn) == \A i \in 1..Len(messages) : messages[i].txn # txn

NotReused ==
    \A c \in Caller :
        call[c].pc = "ready" => /\ Without(ClientOf(c).stream, ClientOf(c).next)
                                /\ Without(ClientOf(c).unsent, ClientOf(c).next)

\* The messages under transaction txn are answers to simple requests.
Singles(messages, txn) ==
    \A i \in 1..Len(messages) : messages[i].txn = txn => messages[i].kind = "single"

SimpleOwn(c) ==
    call[c].pc \in {"writing", "reading"} /\ call[c].kind = "simple"
        => /\ Singles(ClientOf(c).stream, call[c].txn)
           /\ Singles(ClientOf(c).unsent, call[c].txn)

AnswersInv == CleanInv /\ \A c \in Caller : SimpleOwn(c)

\* A call writes or reads only after it has begun its request.
LEMMA ReadsAfterSend ==
    ASSUME CleanInv, NEW c \in Caller,
           \/ \E p \in Player, kind \in {"simple", "menu"} : Begin(c, p, kind)
           \/ Step(c) /\ ~Send(c) /\ ~Flush(c) /\ ~ReadItem(c)
    PROVE  call'[c].pc \notin {"writing", "reading"}
<1>1. TypeOK /\ call \in [Caller -> Call]
    BY DEF CleanInv, TypeOK
<1>2. ASSUME NEW p \in Player, NEW kind \in {"simple", "menu"}, Begin(c, p, kind)
      PROVE  call'[c].pc \notin {"writing", "reading"}
    <2> DEFINE asked  == [NoCall EXCEPT !.pc = "locking"]
               asked2 == [asked EXCEPT !.player = p]
               begun  == [asked2 EXCEPT !.kind = kind]
    <2>1. call' = [call EXCEPT ![c] = begun]
        BY <1>2 DEF Begin
    <2>2. asked.pc = "locking" /\ "pc" \in DOMAIN asked
        BY DEF NoCall
    <2> HIDE DEF asked
    <2>3. asked2.pc = "locking"
        BY <2>2
    <2> HIDE DEF asked2
    <2>4. begun.pc = "locking"
        BY <2>3
    <2> HIDE DEF begun
    <2> QED
        BY <1>1, <2>1, <2>4
<1>3. CASE Lock(c)
    BY <1>1, <1>3 DEF Lock, Call
<1>4. CASE Connect(c)
    <2> DEFINE ready == [call[c] EXCEPT !.pc = "ready"]
               new   == [ready EXCEPT !.client = NewClient]
    <2>1. call' = [call EXCEPT ![c] = [call[c] EXCEPT !.pc = "ready", !.client = NewClient]]
        BY <1>1, <1>4 DEF Connect
    <2>2. ready.pc = "ready"
        BY <1>1 DEF Call
    <2> HIDE DEF ready
    <2>3. call' = [call EXCEPT ![c] = new]
        BY <2>1 DEF ready
    <2>4. new.pc = "ready"
        BY <2>2
    <2> HIDE DEF new
    <2> QED
        BY <1>1, <2>3, <2>4
<1>5. CASE ConnectFails(c) \/ Insert(c) \/ Cancel(c)
    <2>1. \E pc \in {"err", "ok", "out"} : call' = [call EXCEPT ![c] = [NoCall EXCEPT !.pc = pc]]
        BY <1>5 DEF ConnectFails, Insert, Cancel, NoCall
    <2>2. PICK pc \in {"err", "ok", "out"} : call' = [call EXCEPT ![c] = [NoCall EXCEPT !.pc = pc]]
        BY <2>1
    <2>3. [NoCall EXCEPT !.pc = pc].pc = pc
        BY NoCallWith
    <2> QED
        BY <1>1, <2>2, <2>3
<1>6. ASSUME NEW k, NEW result \in {"ok", "err"}, Ends(c, k, result)
      PROVE  call'[c].pc \notin {"writing", "reading"}
    <2> DEFINE ended == [NoCall EXCEPT !.pc = result]
               pooling == [NoCall EXCEPT !.pc = "inserting", !.client = k, !.player = call[c].player]
               failed == [NoCall EXCEPT !.pc = "err"]
    <2>1. ended.pc = result /\ pooling.pc = "inserting" /\ failed.pc = "err"
        BY NoCallWith
    <2>2. \/ call' = [call EXCEPT ![c] = ended] \/ call' = [call EXCEPT ![c] = pooling]
          \/ call' = [call EXCEPT ![c] = failed]
        BY <1>6 DEF Ends
    <2> HIDE DEF ended, pooling, failed
    <2> QED
        BY <1>1, <2>1, <2>2
<1>7. CASE FlushFails(c) \/ ReadSimple(c) \/ ReadLast(c) \/ ReadClosed(c)
    BY <1>6, <1>7 DEF FlushFails, ReadSimple, ReadLast, ReadClosed
<1> QED
    BY <1>2, <1>3, <1>4, <1>5, <1>7 DEF Step, Proceeds, Reads

\* The steps that are no call's leave the clients in use, or cut their streams.
LEMMA OthersCut ==
    ASSUME CleanInv, NEW c \in Caller, Uses(c),
           \/ \E p \in Player : Remove(p) \/ GoesIdle(p) \/ FallsSilent(p)
           \/ Clear \/ Closes \/ UNCHANGED vars
    PROVE  /\ call'[c].pc = call[c].pc /\ call'[c].kind = call[c].kind
           /\ call'[c].txn = call[c].txn
           /\ ClientOf(c)'.unsent = ClientOf(c).unsent
           /\ Len(ClientOf(c).stream) \in Nat /\ Len(ClientOf(c)'.stream) \in Nat
           /\ Len(ClientOf(c)'.stream) <= Len(ClientOf(c).stream)
           /\ \A i \in 1..Len(ClientOf(c)'.stream) : ClientOf(c)'.stream[i] = ClientOf(c).stream[i]
<1> DEFINE k == ClientOf(c)
<1>1. /\ TypeOK /\ CallerOK(c) /\ call[c].player \in Player /\ c # NoCaller
      /\ pool \in [Player -> Client] /\ call \in [Caller -> Call]
    BY DatabaseAssumption, NoneTyped DEF CleanInv, CallerOK, Ended, Uses, TypeOK
<1>2. k \in Client
    BY <1>1, ClientTyped
<1>3. Len(k.stream) \in Nat
    BY <1>2 DEF Client
<1>4. CASE Closes
    <2>1. /\ lock' = lock
          /\ \A p \in Player : pool'[p] = pool[p] \/ pool'[p] \in Closed(pool[p])
          /\ call'[c].pc = call[c].pc /\ call'[c].player = call[c].player
          /\ call'[c].kind = call[c].kind /\ call'[c].txn = call[c].txn
          /\ call'[c].client = call[c].client \/ call'[c].client \in Closed(call[c].client)
        BY <1>1, <1>4, ClosesCuts
    <2>2. k' = k \/ k' \in Closed(k)
        BY <1>1, <2>1 DEF ClientOf, Pooled
    <2> HIDE DEF k
    <2>3. CASE k' \in Closed(k)
        <3>1. /\ k' \in Client /\ Len(k'.stream) <= Len(k.stream) /\ k'.unsent = k.unsent
              /\ \A i \in 1..Len(k'.stream) : k'.stream[i] = k.stream[i]
            BY <1>2, <2>3, ClosedIs
        <3>2. Len(k'.stream) \in Nat
            BY <3>1 DEF Client
        <3> QED
            BY <1>3, <2>1, <3>1, <3>2 DEF k
    <2>4. CASE k' = k
        BY <1>3, <2>1, <2>4 DEF k
    <2> QED
        BY <2>2, <2>3, <2>4
<1>5. CASE ~Closes
    <2>1. /\ UNCHANGED <<lock, call>>
          /\ \A p \in Player : InUse(p) => pool'[p] = pool[p]
        BY <1>1, <1>5 DEF Remove, GoesIdle, FallsSilent, Clear, vars, InUse
    <2>2. k' = k
        BY <1>1, <2>1 DEF ClientOf, Pooled, InUse
    <2> HIDE DEF k
    <2> QED
        BY <1>3, <2>1, <2>2 DEF k
<1> QED
    BY <1>4, <1>5

LEMMA SendOwn ==
    ASSUME CleanInv, NotReused, NEW c \in Caller, Send(c)
    PROVE  SimpleOwn(c)'
<1> DEFINE k == ClientOf(c)
<1>1. /\ Uses(c) /\ k \in Client /\ lock' = lock /\ call[c].pc = "ready"
    BY Sends DEF Send
<1>2. PICK new \in Call, sent \in Client, size \in Nat :
         /\ Continues(c, new, sent)
         /\ new.pc = "writing" /\ new.kind = call[c].kind /\ new.txn = ClientOf(c).next
         /\ new.items = <<>> /\ new.player = call[c].player /\ new.size = size
         /\ sent.clean = ClientOf(c).clean /\ sent.stream = ClientOf(c).stream
         /\ sent.unsent = ClientOf(c).unsent \o Answer(call[c].kind, ClientOf(c).next, size)
    BY Sends
<1>3. call'[c].kind = new.kind /\ call'[c].txn = new.txn /\ ClientOf(c)' = sent
    BY <1>1, <1>2, Continued
<1>4. /\ k.next \in Txn /\ k.stream \in Seq(Message) /\ k.unsent \in Seq(Message)
      /\ Without(k.stream, k.next) /\ Without(k.unsent, k.next)
    BY <1>1 DEF Client, NotReused
<1>5. /\ new.kind = call[c].kind /\ new.txn = k.next /\ sent.stream = k.stream
      /\ sent.unsent = k.unsent \o Answer(call[c].kind, k.next, size)
    BY <1>2
<1> HIDE DEF k
<1>6. Singles(sent.stream, new.txn)
    BY <1>4, <1>5 DEF Without, Singles
<1>7. ASSUME new.kind = "simple", NEW i \in 1..Len(sent.unsent), sent.unsent[i].txn = new.txn
      PROVE  sent.unsent[i].kind = "single"
    <2> DEFINE single == [kind |-> "single", txn |-> k.next]
    <2>1. sent.unsent = k.unsent \o <<single>>
        BY <1>5, <1>7 DEF Answer
    <2>2. single.kind = "single" /\ single \in Message
        BY <1>4 DEF Message
    <2> HIDE DEF single
    <2>3. \/ i \in 1..Len(k.unsent) /\ sent.unsent[i] = k.unsent[i]
          \/ sent.unsent[i] = single
        BY <1>4, <1>7, <2>1, <2>2
    <2> QED
        BY <1>4, <1>5, <1>7, <2>2, <2>3 DEF Without
<1>8. new.kind = "simple" => Singles(sent.unsent, new.txn)
    BY <1>7 DEF Singles
<1> QED
    BY <1>3, <1>6, <1>8 DEF SimpleOwn

LEMMA FlushOwn ==
    ASSUME CleanInv, NEW c \in Caller, SimpleOwn(c), Flush(c)
    PROVE  SimpleOwn(c)'
<1> DEFINE k == ClientOf(c)
<1>1. Uses(c) /\ k \in Client /\ lock' = lock /\ call[c].pc = "writing"
    BY Flushes DEF Flush
<1>2. PICK new \in Call, sent \in Client :
         /\ Continues(c, new, sent)
         /\ new.pc = "reading" /\ new.kind = call[c].kind /\ new.txn = call[c].txn
         /\ new.items = <<>> /\ new.player = call[c].player /\ new.size = call[c].size
         /\ sent.open = ClientOf(c).open /\ sent.clean = ClientOf(c).clean
         /\ sent.unsent = <<>>
         /\ sent.stream = IF ClientOf(c).open THEN ClientOf(c).stream \o ClientOf(c).unsent
                           ELSE ClientOf(c).stream
    BY Flushes
<1>3. call'[c].kind = new.kind /\ call'[c].txn = new.txn /\ ClientOf(c)' = sent
    BY <1>1, <1>2, Continued
<1>4. /\ k.stream \in Seq(Message) /\ k.unsent \in Seq(Message)
      /\ call[c].kind = "simple" => Singles(k.stream, call[c].txn) /\ Singles(k.unsent, call[c].txn)
    BY <1>1 DEF Client, SimpleOwn
<1>5. /\ new.kind = call[c].kind /\ new.txn = call[c].txn /\ sent.unsent = <<>>
      /\ sent.stream = k.stream \/ sent.stream = k.stream \o k.unsent
    BY <1>2
<1> HIDE DEF k
<1>6. ASSUME new.kind = "simple", NEW i \in 1..Len(sent.stream), sent.stream[i].txn = new.txn
      PROVE  sent.stream[i].kind = "single"
    <2>1. \/ i \in 1..Len(k.stream) /\ sent.stream[i] = k.stream[i]
          \/ i - Len(k.stream) \in 1..Len(k.unsent) /\ sent.stream[i] = k.unsent[i - Len(k.stream)]
        <3> DEFINE read == k.stream
                   more == k.unsent
        <3>1. read \in Seq(Message) /\ more \in Seq(Message)
            BY <1>4
        <3>2. sent.stream = read \/ sent.stream = read \o more
            BY <1>5
        <3> HIDE DEF read, more
        <3>3. CASE sent.stream = read
            BY <1>6, <3>3 DEF read
        <3>4. CASE sent.stream = read \o more
            <4>1. Len(sent.stream) = Len(read) + Len(more) /\ Len(read) \in Nat /\ Len(more) \in Nat
                BY <3>1, <3>4
            <4>2. i \in 1..(Len(read) + Len(more))
                BY <1>6, <4>1
            <4>3. i \in 1..Len(read) \/ i - Len(read) \in 1..Len(more)
                BY <4>1, <4>2
            <4>4. sent.stream[i] = IF i \in 1..Len(read) THEN read[i] ELSE more[i - Len(read)]
                BY <3>1, <3>4, <4>1, <4>2
            <4> QED
                BY <4>3, <4>4 DEF read, more
        <3> QED
            BY <3>2, <3>3, <3>4
    <2> QED
        BY <1>4, <1>5, <1>6, <2>1 DEF Singles
<1>7. /\ new.kind = "simple" => Singles(sent.stream, new.txn)
      /\ Singles(sent.unsent, new.txn)
    BY <1>5, <1>6 DEF Singles
<1> QED
    BY <1>3, <1>7 DEF SimpleOwn

LEMMA AnswersNext == AnswersInv /\ NotReused /\ [Next]_vars => AnswersInv'
<1> SUFFICES ASSUME AnswersInv, NotReused, [Next]_vars PROVE AnswersInv'
    OBVIOUS
<1>1. CleanInv /\ CleanInv' /\ \A d \in Caller : SimpleOwn(d)
    BY CleanNext DEF AnswersInv
<1>2. ASSUME NEW c \in Caller, NEW d \in Caller \ {c}, Apart(c)
      PROVE  SimpleOwn(d)'
    <2>1. SimpleOwn(d) /\ call'[d] = call[d] /\ (Uses(d) => ClientOf(d)' = ClientOf(d))
        BY <1>1, <1>2 DEF Apart
    <2>2. CASE Uses(d)
        <3>1. ClientOf(d)' = ClientOf(d)
            BY <2>1, <2>2
        <3> HIDE DEF ClientOf
        <3> QED
            BY <2>1, <3>1 DEF SimpleOwn
    <2>3. CASE ~Uses(d)
        BY <2>1, <2>3 DEF SimpleOwn, Uses
    <2> QED
        BY <2>2, <2>3
<1>3. ASSUME NEW c \in Caller,
             \/ \E p \in Player, kind \in {"simple", "menu"} : Begin(c, p, kind)
             \/ Step(c)
      PROVE  SimpleOwn(c)' /\ Apart(c)
    <2>1. Apart(c)
        BY <1>1, <1>3, BeginKeeps, StepKeeps
    <2>2. CASE Send(c)
        BY <1>1, <2>1, <2>2, SendOwn
    <2>flush. CASE Flush(c)
        BY <1>1, <2>1, <2>flush, FlushOwn
    <2>3. CASE ReadItem(c)
        <3> DEFINE new == [call[c] EXCEPT !.items = Collected(c)]
        <3>1. /\ Continues(c, new, Read(c)) /\ lock' = lock /\ ClientOf(c).stream # <<>>
              /\ call[c].pc = "reading" /\ call[c].kind = "menu"
            BY <2>3 DEF ReadItem, Reading
        <3>2. Uses(c) /\ ClientOf(c) \in Client /\ call[c] \in Call
            BY <1>1, <3>1, Rest
        <3>3. Read(c) \in Client /\ NextMessage(c) \in Message
            BY <3>1, <3>2, ReadTyped
        <3>4. Collected(c) \in Seq(Txn)
            BY <3>2, <3>3 DEF Collected, Call, Message
        <3>5. new \in Call /\ new.kind = "menu" /\ new.player = call[c].player
            BY <3>1, <3>2, <3>4 DEF Call
        <3> HIDE DEF new
        <3>6. call'[c].kind = "menu"
            BY <1>1, <3>1, <3>2, <3>3, <3>5, Continued
        <3> QED
            BY <2>1, <3>6 DEF SimpleOwn
    <2>4. CASE ~Send(c) /\ ~Flush(c) /\ ~ReadItem(c)
        BY <1>1, <1>3, <2>1, <2>4, ReadsAfterSend DEF SimpleOwn
    <2> QED
        BY <2>2, <2>flush, <2>3, <2>4
<1>4. ASSUME NEW c \in Caller,
             \/ \E p \in Player, kind \in {"simple", "menu"} : Begin(c, p, kind)
             \/ Step(c)
      PROVE  \A d \in Caller : SimpleOwn(d)'
    BY <1>2, <1>3, <1>4
<1>5. CASE \/ \E p \in Player : Remove(p) \/ GoesIdle(p) \/ FallsSilent(p)
           \/ Clear \/ Closes \/ UNCHANGED vars
    <2> SUFFICES ASSUME NEW c \in Caller PROVE SimpleOwn(c)'
        BY <1>1 DEF AnswersInv
    <2>1. CASE Uses(c)
        <3>1. /\ call'[c].pc = call[c].pc /\ call'[c].kind = call[c].kind
              /\ call'[c].txn = call[c].txn
              /\ ClientOf(c)'.unsent = ClientOf(c).unsent
              /\ Len(ClientOf(c).stream) \in Nat /\ Len(ClientOf(c)'.stream) \in Nat
              /\ Len(ClientOf(c)'.stream) <= Len(ClientOf(c).stream)
              /\ \A i \in 1..Len(ClientOf(c)'.stream) : ClientOf(c)'.stream[i] = ClientOf(c).stream[i]
            BY <1>1, <1>5, <2>1, OthersCut
        <3>2. SimpleOwn(c)
            BY <1>1
        <3> HIDE DEF ClientOf
        <3> QED
            BY <3>1, <3>2 DEF SimpleOwn, Singles
    <2>2. CASE ~Uses(c)
        <3>1. call'[c].pc = call[c].pc
            BY <1>1, <1>5, ClosesCuts DEF CleanInv, Remove, GoesIdle, FallsSilent, Clear, vars
        <3> QED
            BY <2>2, <3>1 DEF SimpleOwn, Uses
    <2> QED
        BY <2>1, <2>2
<1> QED
    BY <1>1, <1>4, <1>5 DEF Next, Step, AnswersInv

\* A menu request on a connection that no dropped call has used collects exactly the
\* items of its own answer; a simple request that succeeds got its own answer on any
\* connection, as long as transactions are not reused.
THEOREM DatabaseAnswersOwn == Spec /\ []NotReused => AnswersOwn
<1>1. Init => AnswersInv
    BY CleanInit DEF AnswersInv, SimpleOwn, Init, NoCall
<1>2. ASSUME AnswersInv, NEW c \in Caller, ReadLast(c), ClientOf(c).clean
      PROVE  Collected(c) = OwnAnswer(c)
    <2>1. /\ CleanInv /\ call[c].pc = "reading" /\ call[c].kind = "menu"
          /\ ClientOf(c).stream # <<>> /\ NextMessage(c).kind \in {"footer", "single"}
        BY <1>2 DEF AnswersInv, ReadLast, Reading
    <2>2. /\ NextMessage(c).kind = "footer" /\ Len(call[c].items) = call[c].size
          /\ \A i \in 1..Len(call[c].items) : call[c].items[i] = call[c].txn
        BY <1>2, <2>1, LastRead
    <2>3. call[c].items \in Seq(Txn) /\ Collected(c) = call[c].items
        BY <2>1, <2>2 DEF Collected, CleanInv, TypeOK, Call
    <2> QED
        BY <2>2, <2>3 DEF OwnAnswer
<1>3. ASSUME AnswersInv, NEW c \in Caller, ReadSimple(c), call'[c].pc # "err"
      PROVE  NextMessage(c) = [kind |-> "single", txn |-> call[c].txn]
    <2>1. /\ CleanInv /\ call[c].pc = "reading" /\ call[c].kind = "simple"
          /\ ClientOf(c).stream # <<>> /\ SimpleOwn(c)
          /\ Ends(c, Read(c), IF NextMessage(c).txn = call[c].txn THEN "ok" ELSE "err")
        BY <1>3 DEF AnswersInv, ReadSimple, Reading
    <2>2. /\ ClientOf(c) \in Client /\ NextMessage(c) = ClientOf(c).stream[1]
          /\ NextMessage(c) \in Message
        BY <2>1, Rest, ReadTyped
    <2>3. NextMessage(c).txn = call[c].txn
        <3>1. SUFFICES ASSUME NextMessage(c).txn # call[c].txn PROVE FALSE
            OBVIOUS
        <3>2. Ends(c, Read(c), "err")
            BY <2>1, <3>1
        <3> QED
            BY <1>3, <2>1, <3>2, EndsErr DEF CleanInv
    <2>4. 1 \in 1..Len(ClientOf(c).stream)
        BY <2>1, <2>2 DEF Client
    <2>5. NextMessage(c).kind = "single"
        BY <2>1, <2>2, <2>3, <2>4 DEF SimpleOwn, Singles
    <2> QED
        BY <2>2, <2>3, <2>5 DEF Message
<1>4. AnswersInv =>
          [\A c \in Caller :
              /\ ReadLast(c) /\ ClientOf(c).clean => Collected(c) = OwnAnswer(c)
              /\ ReadSimple(c) /\ call'[c].pc # "err"
                     => NextMessage(c) = [kind |-> "single", txn |-> call[c].txn]]_vars
    BY <1>2, <1>3
<1> QED
    BY <1>1, <1>4, AnswersNext, PTL DEF Spec, AnswersOwn
=============================================================================
