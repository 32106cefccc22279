------------------------------ MODULE Database ------------------------------
(***************************************************************************)
(* The pool of connections to the players' database servers                *)
(* (dbserver/connection.rs) and the request protocol on a connection       *)
(* (dbserver/client.rs).                                                   *)
(*                                                                         *)
(* Tasks of the application call ConnectionManager::with_client, each call *)
(* making one request as the fetch functions of data/ do.  On a pooled     *)
(* client it runs with the pool's mutex held; otherwise it connects a      *)
(* client of its own and puts it into the pool when it has succeeded.      *)
(*                                                                         *)
(* A call can end early: its future is dropped (a timeout, a select), also *)
(* while it is writing its request, or its connection is closed.  A player *)
(* can also fall silent, as one that is unplugged does: its connections    *)
(* stay open and nothing is answered.                                      *)
(*                                                                         *)
(* Servers are honest: they answer the requests of a connection in order,  *)
(* each under its own transaction.  TCP loses nothing, so a stream is the  *)
(* sequence of all the messages that are still to be read.                 *)
(***************************************************************************)
EXTENDS Integers, Sequences

CONSTANTS
    Caller,
    Player,
    NoPlayer,     \* the player of a caller that makes no call
    NoCaller,     \* the owner of the pool's mutex when it is free
    Fragile,      \* the players that may fall silent
    MaxItems,     \* bound: items in the answer to a menu request
    MaxBacklog,   \* bound: messages to come on a client when a call of it begins
    MaxAge,       \* bound: requests made of the client since, when a call of it begins
    MaxCancels,   \* bound: futures dropped
    MaxCloses,    \* bound: connections closed
    TxnModulus    \* 2^32 in the source: transactions are u32

ASSUME DatabaseAssumption ==
    /\ NoPlayer \notin Player /\ NoCaller \notin Caller
    /\ Fragile \subseteq Player
    /\ MaxItems \in Nat /\ MaxBacklog \in Nat /\ MaxAge \in Nat
    /\ MaxCancels \in Nat /\ MaxCloses \in Nat
    /\ TxnModulus \in Nat \ {0, 1}

VARIABLES
    pool,      \* per player: the pooled client, or NoClient
    lock,      \* who holds the pool's mutex across an await
    call,      \* per caller: its call of with_client
    silent,    \* the players that have fallen silent
    cancels, closes

vars == <<pool, lock, call, silent, cancels, closes>>

-----------------------------------------------------------------------------
Txn == 0..(TxnModulus - 1)

Message == [kind : {"header", "item", "footer", "single"}, txn : Txn]

\* A client.  unsent: the answers to the requests that are still in its BufWriter,
\* in part or as a whole.  fresh: it was last used less than idle_timeout ago.
\* clean: no call was dropped that had begun its request; of the model only.
Client == [next : Txn, unsent : Seq(Message), stream : Seq(Message), open : BOOLEAN,
           fresh : BOOLEAN, clean : BOOLEAN]

NoClient == [next |-> 0, unsent |-> <<>>, stream |-> <<>>, open |-> FALSE,
             fresh |-> FALSE, clean |-> FALSE]

\* A call: where it is, its request, the items read so far and, unless it is on a
\* pooled one, its client.  size: the items in the answer; of the model only.
Call == [pc     : {"out", "ok", "err",
                   "locking", "connecting", "ready", "writing", "reading", "inserting"},
         player : Player \union {NoPlayer},
         kind   : {"simple", "menu"},
         txn    : Txn,
         items  : Seq(Txn),
         size   : 0..MaxItems,
         client : Client \union {NoClient}]

NoCall == [pc |-> "out", player |-> NoPlayer, kind |-> "simple", txn |-> 0,
           items |-> <<>>, size |-> 0, client |-> NoClient]

TypeOK ==
    /\ pool \in [Player -> Client \union {NoClient}]
    /\ lock \in Caller \union {NoCaller}
    /\ call \in [Caller -> Call]
    /\ silent \in SUBSET Player
    /\ cancels \in 0..MaxCancels
    /\ closes \in 0..MaxCloses

Init ==
    /\ pool = [p \in Player |-> NoClient]
    /\ lock = NoCaller
    /\ call = [c \in Caller |-> NoCall]
    /\ silent = {}
    /\ cancels = 0
    /\ closes = 0

-----------------------------------------------------------------------------
\* with_client up to the closure

Ended(c) == call[c].pc \in {"out", "ok", "err"}

Recent(k) ==
    /\ Len(k.stream) + Len(k.unsent) <= MaxBacklog
    /\ \A i \in 1..Len(k.stream) : (k.next - k.stream[i].txn) % TxnModulus <= MaxAge

Begin(c, p, kind) ==
    /\ Ended(c)
    /\ Recent(pool[p])
    /\ call' = [call EXCEPT ![c] = [NoCall EXCEPT !.pc = "locking",
                                                  !.player = p, !.kind = kind]]
    /\ UNCHANGED <<pool, lock, silent, cancels, closes>>

\* A client that was used less than idle_timeout ago is used under the lock; any
\* other is removed, and the lock is released to connect a new one.
Lock(c) ==
    /\ call[c].pc = "locking"
    /\ lock = NoCaller
    /\ LET p == call[c].player
       IN  IF pool[p].fresh
           THEN /\ lock' = c
                /\ call' = [call EXCEPT ![c].pc = "ready"]
                /\ UNCHANGED pool
           ELSE /\ pool' = [pool EXCEPT ![p] = NoClient]
                /\ call' = [call EXCEPT ![c].pc = "connecting"]
                /\ UNCHANGED lock
    /\ UNCHANGED <<silent, cancels, closes>>

NewClient == [next |-> 1, unsent |-> <<>>, stream |-> <<>>, open |-> TRUE,
              fresh |-> TRUE, clean |-> TRUE]

Answers(c) == call[c].player \notin silent

\* discover_dbserver_port and Client::connect, with the handshake.
Connect(c) ==
    /\ call[c].pc = "connecting"
    /\ Answers(c)
    /\ call' = [call EXCEPT ![c].pc = "ready", ![c].client = NewClient]
    /\ UNCHANGED <<pool, lock, silent, cancels, closes>>

\* The player refuses, or closes the connection during the handshake.
ConnectFails(c) ==
    /\ call[c].pc = "connecting"
    /\ closes < MaxCloses
    /\ closes' = closes + 1
    /\ call' = [call EXCEPT ![c] = [NoCall EXCEPT !.pc = "err"]]
    /\ UNCHANGED <<pool, lock, silent, cancels>>

-----------------------------------------------------------------------------
\* The closure: one request on a client

Pooled(c) == lock = c

ClientOf(c) == IF Pooled(c) THEN pool[call[c].player] ELSE call[c].client

\* The call goes on with client k: in the pool or, before it has succeeded, its own.
Continues(c, new, k) ==
    IF Pooled(c)
    THEN /\ pool' = [pool EXCEPT ![call[c].player] = k]
         /\ call' = [call EXCEPT ![c] = new]
    ELSE /\ call' = [call EXCEPT ![c] = [new EXCEPT !.client = k]]
         /\ UNCHANGED pool

\* The closure's result.  On the pool's client it is with_client's, whatever it is;
\* a client of its own is pooled only after a success.
Ends(c, k, result) ==
    IF Pooled(c)
    THEN /\ pool' = [pool EXCEPT ![call[c].player] = k]
         /\ call' = [call EXCEPT ![c] = [NoCall EXCEPT !.pc = result]]
         /\ lock' = NoCaller
    ELSE /\ call' = [call EXCEPT ![c] =
                       IF result = "ok"
                       THEN [NoCall EXCEPT !.pc = "inserting", !.client = k,
                                           !.player = call[c].player]
                       ELSE [NoCall EXCEPT !.pc = "err"]]
         /\ UNCHANGED <<pool, lock>>

Successor(n) == IF n + 1 = TxnModulus THEN 0 ELSE n + 1

Answer(kind, txn, size) ==
    IF kind = "simple"
    THEN <<[kind |-> "single", txn |-> txn]>>
    ELSE <<[kind |-> "header", txn |-> txn]>>
           \o [i \in 1..size |-> [kind |-> "item", txn |-> txn]]
           \o <<[kind |-> "footer", txn |-> txn]>>

\* The first half of simple_request and menu_request: a transaction of the client's
\* own, and the request is put into the write buffer.
Send(c) ==
    /\ call[c].pc = "ready"
    /\ LET k == ClientOf(c)
       IN  \E size \in 0..MaxItems :
             /\ call[c].kind = "simple" => size = 0
             /\ Continues(c,
                  [call[c] EXCEPT !.pc = "writing", !.txn = k.next, !.size = size],
                  [k EXCEPT !.next = Successor(@),
                            !.unsent = @ \o Answer(call[c].kind, k.next, size)])
    /\ UNCHANGED <<lock, silent, cancels, closes>>

\* The buffer is written, with what an earlier call left in it.  The end of a
\* connection the player has closed still takes it, but nothing comes back.
Flush(c) ==
    /\ call[c].pc = "writing"
    /\ LET k == ClientOf(c)
       IN  Continues(c, [call[c] EXCEPT !.pc = "reading"],
             [k EXCEPT !.stream = IF k.open THEN @ \o k.unsent ELSE @, !.unsent = <<>>])
    /\ UNCHANGED <<lock, silent, cancels, closes>>

\* ... or it refuses it.  What is in the buffer can no longer be sent.
FlushFails(c) ==
    /\ call[c].pc = "writing"
    /\ ~ClientOf(c).open
    /\ Ends(c, [ClientOf(c) EXCEPT !.unsent = <<>>], "err")
    /\ UNCHANGED <<silent, cancels, closes>>

\* read_message returns the next message.
Reading(c, kind) == /\ call[c].pc = "reading"
                    /\ call[c].kind = kind
                    /\ ClientOf(c).stream # <<>>
                    /\ Answers(c)

NextMessage(c) == Head(ClientOf(c).stream)

Read(c) == LET k == ClientOf(c) IN [k EXCEPT !.stream = Tail(@)]

\* Fault: the transaction of the response is not checked.
ReadSimpleUnchecked(c) ==
    /\ Reading(c, "simple")
    /\ Ends(c, Read(c), "ok")
    /\ UNCHANGED <<silent, cancels, closes>>

\* simple_request: the message must carry the transaction of the request.
ReadSimple(c) ==
    /\ Reading(c, "simple")
    /\ Ends(c, Read(c), IF NextMessage(c).txn = call[c].txn THEN "ok" ELSE "err")
    /\ UNCHANGED <<silent, cancels, closes>>

\* menu_request: the header is skipped, items are collected ...
Collected(c) == IF NextMessage(c).kind \in {"item", "single"}
                THEN Append(call[c].items, NextMessage(c).txn)
                ELSE call[c].items

ReadItem(c) ==
    /\ Reading(c, "menu")
    /\ NextMessage(c).kind \in {"header", "item"}
    /\ Continues(c, [call[c] EXCEPT !.items = Collected(c)], Read(c))
    /\ UNCHANGED <<lock, silent, cancels, closes>>

\* Fault: the footer is left in the read buffer.
ReadLastLeavesFooter(c) ==
    /\ Reading(c, "menu")
    /\ NextMessage(c).kind \in {"footer", "single"}
    /\ Ends(c, ClientOf(c), "ok")
    /\ UNCHANGED <<silent, cancels, closes>>

\* ... and the footer, or a message that is not part of a menu, ends it.
ReadLast(c) ==
    /\ Reading(c, "menu")
    /\ NextMessage(c).kind \in {"footer", "single"}
    /\ Ends(c, Read(c), "ok")
    /\ UNCHANGED <<silent, cancels, closes>>

\* read_message meets the end of the stream.
ReadClosed(c) ==
    /\ call[c].pc = "reading"
    /\ ClientOf(c).stream = <<>>
    /\ ~ClientOf(c).open
    /\ Ends(c, ClientOf(c), "err")
    /\ UNCHANGED <<silent, cancels, closes>>

\* Fault: the mutex is not released.
InsertKeepsLock(c) ==
    /\ call[c].pc = "inserting"
    /\ lock = NoCaller
    /\ lock' = c
    /\ pool' = [pool EXCEPT ![call[c].player] = [call[c].client EXCEPT !.fresh = TRUE]]
    /\ call' = [call EXCEPT ![c] = [NoCall EXCEPT !.pc = "ok"]]
    /\ UNCHANGED <<silent, cancels, closes>>

\* The operation succeeded: cache the connection.
Insert(c) ==
    /\ call[c].pc = "inserting"
    /\ lock = NoCaller
    /\ pool' = [pool EXCEPT ![call[c].player] = [call[c].client EXCEPT !.fresh = TRUE]]
    /\ call' = [call EXCEPT ![c] = [NoCall EXCEPT !.pc = "ok"]]
    /\ UNCHANGED <<lock, silent, cancels, closes>>

-----------------------------------------------------------------------------
\* clear, remove

Remove(p) ==
    /\ lock = NoCaller
    /\ pool[p] # NoClient
    /\ pool' = [pool EXCEPT ![p] = NoClient]
    /\ UNCHANGED <<lock, call, silent, cancels, closes>>

Clear ==
    /\ lock = NoCaller
    /\ pool' = [p \in Player |-> NoClient]
    /\ UNCHANGED <<lock, call, silent, cancels, closes>>

-----------------------------------------------------------------------------
\* What happens to calls and connections

\* The future of the call is dropped.  What it leaves in the pool stays there: its
\* answer to come or, if it was still writing, its request in the buffer.
Cancel(c) ==
    /\ ~Ended(c)
    /\ cancels < MaxCancels
    /\ cancels' = cancels + 1
    /\ call' = [call EXCEPT ![c] = NoCall]
    /\ IF Pooled(c)
       THEN /\ lock' = NoCaller
            /\ pool' = [pool EXCEPT ![call[c].player].clean = @ /\ call[c].pc = "ready"]
       ELSE UNCHANGED <<pool, lock>>
    /\ UNCHANGED <<silent, closes>>

\* A pooled client is not used for idle_timeout.
GoesIdle(p) ==
    /\ pool[p].fresh
    /\ ~(lock # NoCaller /\ call[lock].player = p)
    /\ pool' = [pool EXCEPT ![p].fresh = FALSE]
    /\ UNCHANGED <<lock, call, silent, cancels, closes>>

\* The player closes a connection; what it has not answered yet is lost.
Closed(k) == {[k EXCEPT !.open = FALSE, !.stream = SubSeq(@, 1, n)] : n \in 0..Len(k.stream)}

Closes ==
    /\ closes < MaxCloses
    /\ closes' = closes + 1
    /\ \/ \E p \in Player : /\ pool[p].open
                            /\ \E k \in Closed(pool[p]) : pool' = [pool EXCEPT ![p] = k]
                            /\ UNCHANGED call
       \/ \E c \in Caller : /\ call[c].client.open
                            /\ \E k \in Closed(call[c].client) :
                                  call' = [call EXCEPT ![c].client = k]
                            /\ UNCHANGED pool
    /\ UNCHANGED <<lock, silent, cancels>>

FallsSilent(p) ==
    /\ p \in Fragile \ silent
    /\ silent' = silent \union {p}
    /\ UNCHANGED <<pool, lock, call, cancels, closes>>

-----------------------------------------------------------------------------
Reads(c) == ReadSimple(c) \/ ReadItem(c) \/ ReadLast(c) \/ ReadClosed(c)

Proceeds(c) == Connect(c) \/ ConnectFails(c) \/ Send(c) \/ Flush(c) \/ FlushFails(c) \/ Reads(c)

Next ==
    \/ \E c \in Caller, p \in Player, kind \in {"simple", "menu"} : Begin(c, p, kind)
    \/ \E c \in Caller : Lock(c) \/ Proceeds(c) \/ Insert(c) \/ Cancel(c)
    \/ \E p \in Player : Remove(p) \/ GoesIdle(p) \/ FallsSilent(p)
    \/ Clear
    \/ Closes

Spec == Init /\ [][Next]_vars

\* Tasks run, players that are not silent answer, and the mutex is tokio's, which is
\* granted in the order in which it is asked for.
FairSpec == /\ Spec
            /\ \A c \in Caller : WF_vars(Proceeds(c)) /\ SF_vars(Lock(c)) /\ SF_vars(Insert(c))

-----------------------------------------------------------------------------
\* The items of the answer to a menu request.
OwnAnswer(c) == [i \in 1..call[c].size |-> call[c].txn]

\* A menu request on a connection that no dropped call has used collects exactly
\* the items of its own answer, all of them, and a simple request that succeeds got
\* its own answer on any connection (menu_request, simple_request).
AnswersOwn ==
    [][\A c \in Caller :
        /\ ReadLast(c) /\ ClientOf(c).clean => Collected(c) = OwnAnswer(c)
        /\ ReadSimple(c) /\ call'[c].pc # "err"
               => NextMessage(c) = [kind |-> "single", txn |-> call[c].txn]]_vars

\* A request fails only because its connection was closed or an earlier call on it
\* was dropped: whatever else calls do, they leave nothing that hurts the next one.
FailsForAReason ==
    [][\A c \in Caller : (FlushFails(c) \/ Reads(c)) /\ call'[c].pc = "err"
          => ~ClientOf(c).clean \/ ~ClientOf(c).open]_vars

\* Every call ends, if no player involved has fallen silent: neither the caller's own
\* nor the one of the call that holds the pool's mutex.
CallsEnd ==
    \A c \in Caller :
        ~Ended(c) ~> \/ Ended(c)
                     \/ call[c].player \in silent
                     \/ lock # NoCaller /\ call[lock].player \in silent

\* A caller that keeps trying gets through again after a connection was closed.
Reconnects ==
    \A c \in Caller : []<>(call[c].pc = "locking") => []<>(call[c].pc = "ok")
=============================================================================
