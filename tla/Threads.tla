------------------------------- MODULE Threads -------------------------------
(***************************************************************************)
(* The message store (messages/src) and the bridge to it                    *)
(* (api/src/messages-bridge.ts): one thread per person, its turns, and the  *)
(* purge that precedes the deletion of an account.  Each query of the store *)
(* is a step; requests of the chat and a purge run at the same time.        *)
(***************************************************************************)
EXTENDS Naturals, FiniteSets

CONSTANTS Authors, Chats,
          Limit,        \* turns a page of history shows (limit, MAX_TURNS)
          MaxMessages,  \* bound on the questions asked
          MaxThreads    \* bound on the threads ever created

ASSUME ThreadsAssumption == Limit \in Nat /\ MaxMessages \in Nat /\ MaxThreads \in Nat

VARIABLES thread,    \* the thread document of each person; 0 is none
          docs,      \* the turn documents
          kept,    \* turns ever stored: their created_at
          writing,   \* rememberTurn, per request of the chat
          deleting,  \* how far the deletion of each account is
          made,      \* threads ever created
          messages   \* questions ever asked

threadVars == <<thread, docs, kept, writing, deleting, made, messages>>

Quiet == [at |-> "none"]

ThreadsInit ==
  /\ thread = [u \in Authors |-> 0]
  /\ docs = {} /\ kept = 0
  /\ writing = [s \in Chats |-> Quiet]
  /\ deleting = [u \in Authors |-> "no"]
  /\ made = 0 /\ messages = 0

Moves(s, w) == writing' = [writing EXCEPT ![s] = w]
At(s, at) == writing[s].at = at

\* requireUser lets the request in while the account is not erased; the turn is
\* remembered after the provider has answered, whatever has become of the account.
Question(s, u) ==
  /\ writing[s] = Quiet /\ deleting[u] # "erased" /\ messages < MaxMessages
  /\ messages' = messages + 1
  /\ Moves(s, [at |-> "look", u |-> u, of |-> messages + 1, role |-> "user",
                thread |-> 0, purged |-> FALSE])
  /\ UNCHANGED <<thread, docs, kept, deleting, made>>

\* rememberTurn: the question, then the answer if there was one.  A store that
\* answers with an error loses that turn alone.
NextTurn(s) ==
  IF writing[s].role = "user"
  THEN \/ Moves(s, [writing[s] EXCEPT !.at = "look", !.role = "assistant", !.thread = 0,
                                       !.purged = FALSE])
       \/ Moves(s, Quiet)
  ELSE Moves(s, Quiet)

\* threadFor, its first query
Looks(s) ==
  /\ At(s, "look")
  /\ LET t == thread[writing[s].u]
     IN Moves(s, [writing[s] EXCEPT !.at = IF t = 0 THEN "create" ELSE "insert", !.thread = t,
                                     !.purged = FALSE])
  /\ UNCHANGED <<thread, docs, kept, deleting, made, messages>>

\* Mutant: without the unique index every request creates a thread of its own.
CreatesAnother(s) ==
  /\ At(s, "create") /\ made < MaxThreads
  /\ made' = made + 1
  /\ thread' = [thread EXCEPT ![writing[s].u] = made + 1]
  /\ Moves(s, [writing[s] EXCEPT !.at = "insert", !.thread = made + 1])
  /\ UNCHANGED <<docs, kept, deleting, messages>>

\* The insert of the thread document: docs_one_thread refuses a second one.
Creates(s) ==
  /\ At(s, "create") /\ made < MaxThreads
  /\ LET u == writing[s].u
     IN IF thread[u] = 0
        THEN /\ made' = made + 1
             /\ thread' = [thread EXCEPT ![u] = made + 1]
             /\ Moves(s, [writing[s] EXCEPT !.at = "insert", !.thread = made + 1,
                                             !.purged = FALSE])
        ELSE /\ Moves(s, [writing[s] EXCEPT !.at = "again"])
             /\ UNCHANGED <<thread, made>>
  /\ UNCHANGED <<docs, kept, deleting, messages>>

\* "Unique race: another turn created the thread first."  A purge may have
\* taken it away again, and then the insert's error stands.
LooksAgain(s) ==
  /\ At(s, "again")
  /\ LET t == thread[writing[s].u]
     IN IF t = 0 THEN NextTurn(s)
        ELSE Moves(s, [writing[s] EXCEPT !.at = "insert", !.thread = t, !.purged = FALSE])
  /\ UNCHANGED <<thread, docs, kept, deleting, made, messages>>

Inserts(s) ==
  /\ At(s, "insert")
  /\ LET w == writing[s]
     IN docs' = docs \cup {[u |-> w.u, of |-> w.of, role |-> w.role, thread |-> w.thread,
                           purged |-> w.purged, n |-> kept + 1]}
  /\ kept' = kept + 1
  /\ NextTurn(s)
  /\ UNCHANGED <<thread, deleting, made, messages>>

\* The store is unreachable, or the api restarts: the rest is not remembered.
Loses(s) ==
  /\ writing[s] # Quiet
  /\ Moves(s, Quiet)
  /\ UNCHANGED <<thread, docs, kept, deleting, made, messages>>

-----------------------------------------------------------------------------
(* POST /api/account/delete: forgetTurns, and only then auth.soft_delete.   *)

\* The purge takes every document of the person in one statement.
Forgets(u) ==
  /\ deleting[u] = "no"
  /\ docs' = {d \in docs : d.u # u}
  /\ thread' = [thread EXCEPT ![u] = 0]
  /\ writing' = [s \in Chats |-> IF writing[s] # Quiet /\ writing[s].u = u
                               THEN [writing[s] EXCEPT !.purged = TRUE] ELSE writing[s]]
  /\ deleting' = [deleting EXCEPT ![u] = "forgotten"]
  /\ UNCHANGED <<kept, made, messages>>

\* soft_delete, or its failure: then the account lives on, without its turns.
Erases(u) ==
  /\ deleting[u] = "forgotten"
  /\ \E to \in {"erased", "no"} : deleting' = [deleting EXCEPT ![u] = to]
  /\ UNCHANGED <<thread, docs, kept, writing, made, messages>>

ThreadsNext ==
  \/ \E s \in Chats :
       \/ \E u \in Authors : Question(s, u)
       \/ Looks(s) \/ Creates(s) \/ LooksAgain(s) \/ Inserts(s) \/ Loses(s)
  \/ \E u \in Authors : Forgets(u) \/ Erases(u)

ThreadsSpec == ThreadsInit /\ [][ThreadsNext]_threadVars

-----------------------------------------------------------------------------
Turns == [u: Authors, of: 1..MaxMessages, role: {"user", "assistant"}, thread: 0..MaxThreads,
          purged: BOOLEAN, n: Nat]

\* What the store and the requests hold.
ThreadsTypeOK ==
  /\ thread \in [Authors -> 0..MaxThreads] /\ made \in 0..MaxThreads
  /\ docs \subseteq Turns /\ IsFiniteSet(docs) /\ kept \in Nat
  /\ \A d \in docs : d.n <= kept /\ \A e \in docs : d.n = e.n => d = e
  /\ writing \in [Chats -> {Quiet} \cup
       [at: {"look", "create", "again", "insert"}, u: Authors, of: 1..MaxMessages,
        role: {"user", "assistant"}, thread: 0..MaxThreads, purged: BOOLEAN]]
  /\ deleting \in [Authors -> {"no", "forgotten", "erased"}]
  /\ messages \in 0..MaxMessages

\* turns(): the thread's turns, the oldest first, as many as fit.
Held(u) == {d \in docs : d.u = u /\ thread[u] # 0 /\ d.thread = thread[u]}
History(u) == {d \in Held(u) : Cardinality({e \in Held(u) : e.n < d.n}) < Limit}

\* A turn that was stored is shown, unless there are more than fit or a purge passed
\* between the lookup of its thread and its insert: two first messages at once do not
\* split a conversation, and a purge hides nothing new.
StoredIsShown ==
  \A d \in docs :
    \/ d.purged
    \/ Cardinality(Held(d.u)) > Limit
    \/ d \in History(d.u)
=============================================================================
