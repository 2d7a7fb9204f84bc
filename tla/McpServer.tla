------------------------------ MODULE McpServer ------------------------------
(***************************************************************************)
(* The MCP server of meridian-mcp/src/main.rs: requests come as lines on   *)
(* standard input, read one at a time, or over HTTP, handled concurrently. *)
(*                                                                         *)
(* A handler runs without awaiting anything up to a tool call, which runs  *)
(* on a blocking thread while the handler awaits it. HTTP handlers run on  *)
(* several threads, so their locked reads and writes of the session table  *)
(* interleave. A client that goes away drops its handler at an await; the  *)
(* blocking thread runs on. A line that is not text ends the reader of     *)
(* standard input, and the server with it.                                 *)
(*                                                                         *)
(* A session is named by the request that made it. Payloads are left out:  *)
(* a tool call may be refused at once, or compute and succeed or fail.     *)
(***************************************************************************)
EXTENDS Integers, Sequences, FiniteSets

CONSTANTS
    Requests,   \* the requests, by the order in which they come
    Shapes,     \* what a request may be
    Transports, \* {"stdio"}, {"http"} or both
    Burst       \* requests the rate limiter lets through at once

Posts == {"initialize", "initialized", "list", "call", "unknown"}
Kinds == Posts \cup {"open", "delete", "garbled", "binary"}
NoSession == 0

\* garbled: no request, whatever its bytes over HTTP and text over standard
\* input, where bytes that are not UTF-8 are binary.
\* hasId: not a notification; key: it carries the server's key. The session
\* it names is that of its header, or for a POST that of its query.
Shape == [kind : Kinds, hasId : BOOLEAN, key : BOOLEAN]

ASSUME ConstantsTyped ==
    /\ Requests \subseteq Nat \ {0} /\ IsFiniteSet(Requests)
    /\ Shapes \subseteq Shape
    /\ Transports \subseteq {"stdio", "http"}
    /\ Burst \in Nat \ {0}

VARIABLES
    transport,
    asked,      \* request -> its shape and the session it names
    at,         \* request -> how far its handler is
    under,      \* request -> the session it was admitted under
    thread,     \* request -> its tool call's blocking thread
    sessions,   \* the session table
    allowance,  \* what the rate limiter has left
    replies,    \* the replies sent, in order
    gone        \* history: sessions whose deletion has been confirmed

vars == <<transport, asked, at, under, thread, sessions, allowance, replies,
          gone>>

Http == transport = "http"
Kind(r) == asked[r].kind
NotAsked == [kind |-> "garbled", hasId |-> FALSE, key |-> FALSE,
             names |-> NoSession, gone |-> {}]

Init ==
    /\ transport \in Transports
    /\ asked = [r \in Requests |-> NotAsked]
    /\ at = [r \in Requests |-> "away"]
    /\ under = [r \in Requests |-> NoSession]
    /\ thread = [r \in Requests |-> "none"]
    /\ sessions = {} /\ allowance = Burst /\ replies = <<>> /\ gone = {}

\* The sessions a client has been told of.
Announced == {replies[i].session : i \in DOMAIN replies} \ {NoSession}

-----------------------------------------------------------------------------
(* Clients *)

Come(r, shape, s) ==
    /\ at[r] = "away" /\ \A q \in Requests : q < r => at[q] # "away"
    /\ s \in IF Http THEN Announced \cup {NoSession} ELSE {NoSession}
    /\ shape.kind \notin IF Http THEN {"binary"} ELSE {"open", "delete"}
    /\ asked' = [asked EXCEPT ![r] =
                    [kind |-> shape.kind, hasId |-> shape.hasId,
                     key |-> shape.key, names |-> s, gone |-> gone]]
    /\ at' = [at EXCEPT ![r] = "came"]
    /\ UNCHANGED <<transport, under, thread, sessions, allowance, replies, gone>>

\* The connection is lost before the handler runs, or while it awaits a call.
HangUp(r) ==
    /\ Http /\ at[r] \in {"came", "calling"}
    /\ at' = [at EXCEPT ![r] = "dropped"]
    /\ UNCHANGED <<transport, asked, under, thread, sessions, allowance,
                   replies, gone>>

-----------------------------------------------------------------------------
(* Before the protocol *)

Reply(r, what, s) ==
    /\ replies' = Append(replies, [to |-> r, what |-> what, session |-> s])
    /\ at' = [at EXCEPT ![r] = "settled"]

Refill ==
    /\ allowance < Burst
    /\ allowance' = allowance + 1
    /\ UNCHANGED <<transport, asked, at, under, thread, sessions, replies, gone>>

Unfinished(r) == at[r] \notin {"away", "settled", "dropped"}

\* Mutant: the reader takes a line while an earlier one's call is computing.
ReaderFree_Calling(r) ==
    Http \/ \A q \in Requests : q < r => ~Unfinished(q) \/ at[q] = "calling"

\* Standard input is read a line at a time, each handled to its end. The line
\* the reader ended at is never behind it.
ReaderFree(r) == Http \/ \A q \in Requests : q < r => ~Unfinished(q)

\* Over HTTP a body that does not parse never reaches the handler.
Unreadable(r) ==
    /\ Http /\ at[r] = "came" /\ Kind(r) = "garbled"
    /\ Reply(r, "unreadable", NoSession)
    /\ UNCHANGED <<transport, asked, under, thread, sessions, allowance, gone>>

\* A line that is not UTF-8 is an error of next_line, which run_stdio_server
\* returns: neither this line nor a later one is answered.
ReadFails(r) ==
    /\ ~Http /\ at[r] = "came" /\ ReaderFree(r) /\ Kind(r) = "binary"
    /\ at' = [at EXCEPT ![r] = "ended"]
    /\ UNCHANGED <<transport, asked, under, thread, sessions, allowance,
                   replies, gone>>

LetThrough(r) ==
    /\ at[r] = "came" /\ ReaderFree(r) /\ allowance > 0
    /\ Kind(r) # IF Http THEN "garbled" ELSE "binary"
    /\ allowance' = allowance - 1
    /\ at' = [at EXCEPT ![r] = "passed"]
    /\ UNCHANGED <<transport, asked, under, thread, sessions, replies, gone>>

\* Over the rate, HTTP refuses; standard input waits for the limiter.
TooMany(r) ==
    /\ Http /\ at[r] = "came" /\ allowance = 0 /\ Kind(r) # "garbled"
    /\ Reply(r, "tooMany", NoSession)
    /\ UNCHANGED <<transport, asked, under, thread, sessions, allowance, gone>>

\* Mutant: a session once announced is taken to exist.
Known_Announced(s) == s \in Announced

Known(s) == s \in sessions

\* An initialize makes a session before its key is looked at.
MakeSession(r) ==
    /\ Http /\ at[r] = "passed" /\ Kind(r) = "initialize"
    /\ sessions' = sessions \cup {r}
    /\ under' = [under EXCEPT ![r] = r]
    /\ at' = [at EXCEPT ![r] = "admitted"]
    /\ UNCHANGED <<transport, asked, thread, allowance, replies, gone>>

FindSession(r) ==
    /\ Http /\ at[r] = "passed" /\ Kind(r) \in Posts \ {"initialize"}
    /\ IF Known(asked[r].names)
       THEN /\ under' = [under EXCEPT ![r] = asked[r].names]
            /\ at' = [at EXCEPT ![r] = "admitted"]
            /\ UNCHANGED replies
       ELSE Reply(r, "noSession", NoSession) /\ UNCHANGED under
    /\ UNCHANGED <<transport, asked, thread, sessions, allowance, gone>>

\* Mutant: a request that is refused takes the session it came under with it.
WrongKey_Forgets(r) ==
    /\ Http /\ ~asked[r].key
    /\ at[r] = IF Kind(r) \in Posts THEN "admitted" ELSE "passed"
    /\ Reply(r, "wrongKey", NoSession)
    /\ sessions' = sessions \ {under[r]}
    /\ UNCHANGED <<transport, asked, under, thread, allowance, gone>>

\* A GET or DELETE shows its key first, a POST after its session.
WrongKey(r) ==
    /\ Http /\ ~asked[r].key
    /\ at[r] = IF Kind(r) \in Posts THEN "admitted" ELSE "passed"
    /\ Reply(r, "wrongKey", NoSession)
    /\ UNCHANGED <<transport, asked, under, thread, sessions, allowance, gone>>

-----------------------------------------------------------------------------
(* GET and DELETE *)

\* A GET opens an event stream whose first event names a new session.
OpenStream(r) ==
    /\ at[r] = "passed" /\ Kind(r) = "open" /\ asked[r].key
    /\ IF asked[r].names # NoSession
       THEN Reply(r, "notAllowed", NoSession) /\ UNCHANGED sessions
       ELSE Reply(r, "stream", r) /\ sessions' = sessions \cup {r}
    /\ UNCHANGED <<transport, asked, under, thread, allowance, gone>>

Delete(r) ==
    /\ at[r] = "passed" /\ Kind(r) = "delete" /\ asked[r].key
    /\ IF asked[r].names \in sessions
       THEN /\ sessions' = sessions \ {asked[r].names}
            /\ gone' = gone \cup {asked[r].names}
            /\ Reply(r, "deleted", NoSession)
       ELSE Reply(r, "notFound", NoSession) /\ UNCHANGED <<sessions, gone>>
    /\ UNCHANGED <<transport, asked, under, thread, allowance>>

-----------------------------------------------------------------------------
(* handle_protocol, and what each transport makes of its answer *)

AtProtocol(r) ==
    IF Http THEN at[r] = "admitted" /\ asked[r].key ELSE at[r] = "passed"

\* "none" is no response. A notification that is not initialized runs its
\* method and has none, except that an unknown method is answered.
Send(r, answer) ==
    IF Http
    THEN IF ~asked[r].hasId THEN Reply(r, "accepted", NoSession)
         ELSE IF answer = "none" THEN Reply(r, "failed", NoSession)
         ELSE Reply(r, answer, under[r])
    ELSE IF answer = "none"
         THEN at' = [at EXCEPT ![r] = "settled"] /\ UNCHANGED replies
         ELSE Reply(r, answer, NoSession)

ForRequests(r, answer) == IF asked[r].hasId THEN answer ELSE "none"

AnswerAtOnce(r) ==
    /\ AtProtocol(r)
    /\ \/ /\ Kind(r) \in {"initialize", "list"}
          /\ Send(r, ForRequests(r, "result"))
       \/ Kind(r) = "initialized" /\ Send(r, "none")
       \/ Kind(r) = "unknown" /\ Send(r, "noMethod")
       \/ Kind(r) = "garbled" /\ Send(r, "unreadable")
       \/ Kind(r) = "call" /\ Send(r, ForRequests(r, "error"))
    /\ UNCHANGED <<transport, asked, under, thread, sessions, allowance, gone>>

StartCall(r) ==
    /\ AtProtocol(r) /\ Kind(r) = "call"
    /\ at' = [at EXCEPT ![r] = "calling"]
    /\ thread' = [thread EXCEPT ![r] = "busy"]
    /\ UNCHANGED <<transport, asked, under, sessions, allowance, replies, gone>>

\* The computation returns, is refused, or panics.
Compute(r) ==
    /\ thread[r] = "busy"
    /\ \E how \in {"result", "error"} : thread' = [thread EXCEPT ![r] = how]
    /\ UNCHANGED <<transport, asked, at, under, sessions, allowance, replies,
                   gone>>

\* Mutant: a call that fails is never answered.
EndCall_ResultOnly(r) ==
    /\ at[r] = "calling" /\ thread[r] = "result"
    /\ Send(r, ForRequests(r, thread[r]))
    /\ UNCHANGED <<transport, asked, under, thread, sessions, allowance, gone>>

EndCall(r) ==
    /\ at[r] = "calling" /\ thread[r] \in {"result", "error"}
    /\ Send(r, ForRequests(r, thread[r]))
    /\ UNCHANGED <<transport, asked, under, thread, sessions, allowance, gone>>

-----------------------------------------------------------------------------

Handle(r) ==
    \/ Unreadable(r) \/ ReadFails(r) \/ LetThrough(r) \/ TooMany(r)
    \/ MakeSession(r) \/ FindSession(r) \/ WrongKey(r)
    \/ OpenStream(r) \/ Delete(r)
    \/ AnswerAtOnce(r) \/ StartCall(r) \/ EndCall(r)

Next ==
    \/ Refill
    \/ \E r \in Requests :
          \/ \E shape \in Shapes, s \in Requests \cup {NoSession} :
                Come(r, shape, s)
          \/ HangUp(r) \/ Handle(r) \/ Compute(r)

\* The runtime polls a handler that can go on, a computation ends, and the
\* limiter's allowance comes back with time. Clients owe nothing.
Fairness ==
    /\ WF_vars(Refill)
    /\ \A r \in Requests : WF_vars(Handle(r)) /\ WF_vars(Compute(r))

Spec == Init /\ [][Next]_vars /\ Fairness

-----------------------------------------------------------------------------
(* Properties *)

Answers == {"unreadable", "tooMany", "noSession", "wrongKey", "stream",
            "notAllowed", "deleted", "notFound", "accepted", "failed",
            "result", "error", "noMethod"}

\* Types of the variables.
TypeOK ==
    /\ transport \in Transports
    /\ asked \in [Requests -> [kind : Kinds, hasId : BOOLEAN, key : BOOLEAN,
                               names : Requests \cup {NoSession},
                               gone : SUBSET Requests]]
    /\ at \in [Requests -> {"away", "came", "passed", "admitted", "calling",
                            "settled", "dropped", "ended"}]
    /\ under \in [Requests -> Requests \cup {NoSession}]
    /\ thread \in [Requests -> {"none", "busy", "result", "error"}]
    /\ sessions \subseteq Requests /\ gone \subseteq Requests
    /\ allowance \in 0..Burst
    /\ replies \in Seq([to : Requests, what : Answers,
                        session : Requests \cup {NoSession}])

\* On standard output replies come in the order of the lines they answer,
\* however long a call computes: a client may match them by position.
LinesInOrder ==
    transport = "stdio" =>
        \A i, j \in DOMAIN replies : i < j => replies[i].to < replies[j].to

\* A request that came after a session's deletion was confirmed is not served
\* under it (one admitted before may still be).
DeletedStaysDeleted ==
    \A i \in DOMAIN replies :
        replies[i].session \notin asked[replies[i].to].gone

\* A client that names a session it was told of is refused for it only if
\* someone deleted that session: no other client's steps lose it.
SessionsAreKept ==
    \A i \in DOMAIN replies :
        replies[i].what = "noSession" =>
            asked[replies[i].to].names \in gone \cup {NoSession}

\* Every request whose client stays is answered, in spite of the others,
\* of the rate and of calls that fail; over standard input a notification,
\* and initialized in any form, is finished without an answer. The exception
\* is a line of standard input that is not UTF-8: it ends the server
\* (main.rs:277), and takes with it itself and what came after, but nothing
\* that came before. A call that was begun ends, even when its client has gone.
EveryRequestIsSettled ==
    \A r \in Requests :
        at[r] = "came" ~>
            /\ thread[r] # "busy"
            /\ \/ at[r] = "dropped"
               \/ \E i \in DOMAIN replies : replies[i].to = r
               \/ /\ transport = "stdio" /\ at[r] = "settled"
                  /\ ~asked[r].hasId \/ Kind(r) = "initialized"
               \/ \E q \in Requests :
                     q <= r /\ Kind(q) = "binary" /\ at[q] = "ended"
=============================================================================
