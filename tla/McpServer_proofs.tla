-------------------------- MODULE McpServer_proofs --------------------------
(***************************************************************************)
(* Types, the order of replies on standard output and the life of a        *)
(* session, for every number of requests, every mixture of their shapes    *)
(* and every interleaving of their handlers.                               *)
(***************************************************************************)
EXTENDS McpServer, TLAPS

Replies == [to : Requests, what : Answers, session : Requests \cup {NoSession}]
Steps == {"away", "came", "passed", "admitted", "calling", "settled", "dropped",
          "ended"}

\* The sessions there have ever been.
Made == sessions \cup gone \cup {NoSession}

\* Requests come in order, and over standard input are handled in order.
OneByOne ==
    /\ \A q, r \in Requests : q < r /\ at[r] # "away" => at[q] # "away"
    /\ ~Http => \A q, r \in Requests :
          q < r /\ at[r] \notin {"away", "came"} => at[q] \in {"settled", "dropped"}

\* A session is new when it is made, and never comes back.
SessionsAreNew ==
    /\ sessions \cap gone = {}
    /\ \A s \in sessions \cup gone : at[s] \notin {"away", "came", "passed"}

\* What a request names has been made; what it is admitted under had not been
\* deleted when it came.
AdmittedRightly ==
    \A r \in Requests :
        /\ asked[r].gone \subseteq gone
        /\ asked[r].names \in Made /\ under[r] \in Made
        /\ Http /\ at[r] \in {"admitted", "calling"} => under[r] \notin asked[r].gone

\* What a reply says stays true: its request has settled and is not asked anew.
RepliesStand ==
    /\ \A i \in DOMAIN replies :
          at[replies[i].to] = "settled" /\ replies[i].session \in Made
    /\ LinesInOrder /\ DeletedStaysDeleted /\ SessionsAreKept

ServerInv ==
    TypeOK /\ OneByOne /\ SessionsAreNew /\ AdmittedRightly /\ RepliesStand

-----------------------------------------------------------------------------

\* No session is called NoSession.
LEMMA NoSessionIsNone == NoSession \notin Requests
BY ConstantsTyped DEF NoSession

\* Replies are to requests.
LEMMA RepliesToRequests ==
    ASSUME TypeOK
    PROVE  \A i \in DOMAIN replies :
              replies[i].to \in Requests /\ replies[i].what \in Answers
<1>1. replies \in Seq(Replies)
  BY DEF TypeOK, Replies
<1>2. \A i \in DOMAIN replies : replies[i] \in Replies
  BY <1>1
<1> QED  BY <1>2 DEF Replies

\* A reply keeps the types, and settles its request.
LEMMA ReplyTyped ==
    ASSUME TypeOK, NEW r \in Requests, NEW what \in Answers,
           NEW s \in Requests \cup {NoSession}, Reply(r, what, s)
    PROVE  /\ at' \in [Requests -> Steps]
           /\ replies' \in Seq(Replies)
           /\ DOMAIN replies' = 1..(Len(replies) + 1)
           /\ DOMAIN replies = 1..Len(replies)
           /\ \A i \in DOMAIN replies : replies'[i] = replies[i]
           /\ replies'[Len(replies) + 1] = [to |-> r, what |-> what, session |-> s]
           /\ at'[r] = "settled"
           /\ \A q \in Requests \ {r} : at'[q] = at[q]
<1>1. replies \in Seq(Replies) /\ at \in [Requests -> Steps]
  BY DEF TypeOK, Replies, Steps
<1>2. [to |-> r, what |-> what, session |-> s] \in Replies
  BY DEF Replies
<1>3. /\ replies' = Append(replies, [to |-> r, what |-> what, session |-> s])
      /\ at' = [at EXCEPT ![r] = "settled"]
  BY DEF Reply
<1>4. Len(replies) \in Nat
  BY <1>1
<1>5. replies' \in Seq(Replies)
  BY <1>1, <1>2, <1>3
<1> QED  BY <1>1, <1>2, <1>3, <1>4, <1>5 DEF Steps

\* What a step that answers r at once, or ends its call, has done.
LEMMA SendIs ==
    ASSUME NEW r \in Requests, NEW answer \in {"none", "result", "error",
                                               "noMethod", "unreadable"},
           Send(r, answer)
    PROVE  \/ ~Http /\ at' = [at EXCEPT ![r] = "settled"] /\ UNCHANGED replies
           \/ ~Http /\ Reply(r, answer, NoSession) /\ answer # "none"
           \/ Http /\ \E what \in {"accepted", "failed"} : Reply(r, what, NoSession)
           \/ Http /\ Reply(r, answer, under[r]) /\ answer # "none"
BY DEF Send

\* A reply to r is the last of them, and says what is so.
LEMMA ReplyStands ==
    ASSUME ServerInv, NEW r \in Requests, NEW what \in Answers,
           NEW s \in Requests \cup {NoSession}, Reply(r, what, s),
           UNCHANGED <<transport, asked>>, Made \subseteq Made',
           gone \subseteq gone', s \in Made', s \notin asked[r].gone,
           what = "noSession" => asked[r].names \in gone' \cup {NoSession},
           at[r] \in {"came", "passed", "admitted", "calling"},
           ~Http => at[r] # "came"
    PROVE  OneByOne' /\ RepliesStand'
<1> DEFINE n == Len(replies) + 1
<1>1. /\ DOMAIN replies = 1..Len(replies) /\ DOMAIN replies' = 1..n
      /\ \A i \in DOMAIN replies : replies'[i] = replies[i]
      /\ replies'[n] = [to |-> r, what |-> what, session |-> s]
      /\ at'[r] = "settled" /\ \A q \in Requests \ {r} : at'[q] = at[q]
      /\ Len(replies) \in Nat
      /\ \A i \in DOMAIN replies : replies[i].to \in Requests
  <2>1. replies \in Seq(Replies)
    BY DEF ServerInv, TypeOK, Replies
  <2> QED  BY <2>1, RepliesToRequests, ReplyTyped DEF ServerInv
<1>2. \A i \in DOMAIN replies' : i \in DOMAIN replies \/ i = n
  BY <1>1
<1>3. \A i \in DOMAIN replies :
          at[replies[i].to] = "settled" /\ replies[i].session \in Made
  BY DEF ServerInv, RepliesStand
<1>4. Requests \subseteq Nat
  BY ConstantsTyped
<1>5. OneByOne'
  BY <1>1, <1>4 DEF ServerInv, OneByOne, Http
<1>6. \A i \in DOMAIN replies' :
          at'[replies'[i].to] = "settled" /\ replies'[i].session \in Made'
  BY <1>1, <1>2, <1>3
<1>7. LinesInOrder'
  <2> SUFFICES ASSUME transport = "stdio", NEW i \in DOMAIN replies', NEW j \in DOMAIN replies', i < j
               PROVE  replies'[i].to < replies'[j].to
    BY DEF LinesInOrder
  <2>0. ~Http
    BY DEF Http
  <2>1. i \in DOMAIN replies
    BY <1>1, <1>2
  <2>2. CASE j \in DOMAIN replies
    <3>1. replies[i].to < replies[j].to
      BY <2>1, <2>2 DEF ServerInv, RepliesStand, LinesInOrder
    <3> QED  BY <1>1, <2>1, <2>2, <3>1
  <2>3. CASE j = n
    <3>1. ~(r < replies[i].to)
      BY <1>1, <1>3, <2>0, <2>1 DEF ServerInv, OneByOne
    <3>2. r # replies[i].to
      BY <1>3, <2>1
    <3> QED  BY <1>1, <1>4, <2>1, <2>3, <3>1, <3>2
  <2> QED  BY <1>2, <2>2, <2>3
<1>8. DeletedStaysDeleted'
  BY <1>1, <1>2 DEF ServerInv, RepliesStand, DeletedStaysDeleted
<1>9. SessionsAreKept'
  BY <1>1, <1>2 DEF ServerInv, RepliesStand, SessionsAreKept
<1> QED  BY <1>5, <1>6, <1>7, <1>8, <1>9 DEF RepliesStand

\* Where nothing is answered, a request that has settled stays as it was.
LEMMA SilenceStands ==
    ASSUME ServerInv, UNCHANGED <<transport, replies>>, Made \subseteq Made',
           gone \subseteq gone',
           \A q \in Requests : at[q] = "settled" =>
               at'[q] = "settled" /\ asked'[q] = asked[q]
    PROVE  RepliesStand'
<1>1. \A i \in DOMAIN replies : replies[i].to \in Requests
  BY RepliesToRequests DEF ServerInv
<1>2. \A i \in DOMAIN replies :
          at[replies[i].to] = "settled" /\ replies[i].session \in Made
  BY DEF ServerInv, RepliesStand
<1>3. LinesInOrder'
  BY DEF ServerInv, RepliesStand, LinesInOrder
<1>4. DeletedStaysDeleted'
  BY <1>1, <1>2 DEF ServerInv, RepliesStand, DeletedStaysDeleted
<1>5. SessionsAreKept'
  BY <1>1, <1>2 DEF ServerInv, RepliesStand, SessionsAreKept
<1> QED  BY <1>1, <1>2, <1>3, <1>4, <1>5 DEF RepliesStand

-----------------------------------------------------------------------------
(* The steps that answer *)

\* An answer that touches nothing else keeps the invariant.
LEMMA PlainReply ==
    ASSUME ServerInv, NEW r \in Requests, NEW what \in Answers,
           NEW s \in Requests \cup {NoSession}, Reply(r, what, s),
           UNCHANGED <<transport, asked, under, thread, sessions, allowance, gone>>,
           s \in Made, s \notin asked[r].gone,
           what = "noSession" => asked[r].names \in gone \cup {NoSession},
           at[r] \in {"came", "passed", "admitted", "calling"},
           ~Http => at[r] # "came"
    PROVE  ServerInv'
<1>1. Made' = Made /\ (Http' <=> Http)
  BY DEF Made, Http
<1>2. OneByOne' /\ RepliesStand'
  BY <1>1, ReplyStands
<1>3. /\ at' \in [Requests -> Steps] /\ replies' \in Seq(Replies)
      /\ at'[r] = "settled" /\ \A q \in Requests \ {r} : at'[q] = at[q]
  BY ReplyTyped DEF ServerInv
<1>4. TypeOK'
  BY <1>3 DEF ServerInv, TypeOK, Steps, Replies
<1>5. SessionsAreNew'
  BY <1>3 DEF ServerInv, SessionsAreNew, TypeOK
<1>6. AdmittedRightly'
  BY <1>1, <1>3 DEF ServerInv, AdmittedRightly
<1> QED  BY <1>2, <1>4, <1>5, <1>6 DEF ServerInv

\* NoSession has been "made" and is in nobody's past.
LEMMA NoSessionIsFine ==
    ASSUME TypeOK, NEW r \in Requests
    PROVE  NoSession \in Made /\ NoSession \notin asked[r].gone
<1>1. asked[r].gone \subseteq Requests
  BY DEF TypeOK
<1> QED  BY <1>1, NoSessionIsNone DEF Made

\* A handler that gets so far sends its answer, or has none to send.
LEMMA SendKeeps ==
    ASSUME ServerInv, NEW r \in Requests,
           NEW answer \in {"none", "result", "error", "noMethod", "unreadable"},
           Send(r, answer), AtProtocol(r) \/ at[r] = "calling",
           UNCHANGED <<transport, asked, under, thread, sessions, allowance, gone>>
    PROVE  ServerInv'
<1> USE DEF Answers
<1>1. /\ at[r] \in {"passed", "admitted", "calling"}
      /\ Http => at[r] \in {"admitted", "calling"}
  BY DEF AtProtocol
<1>2. NoSession \in Made /\ NoSession \notin asked[r].gone
  BY NoSessionIsFine DEF ServerInv
<1>3. CASE ~Http /\ at' = [at EXCEPT ![r] = "settled"] /\ UNCHANGED replies
  <2>1. /\ at' \in [Requests -> Steps] /\ at'[r] = "settled"
        /\ \A q \in Requests \ {r} : at'[q] = at[q]
    BY <1>3 DEF ServerInv, TypeOK, Steps
  <2>2. Made' = Made /\ (Http' <=> Http)
    BY DEF Made, Http
  <2>3. RepliesStand'
    BY <1>3, <2>1, <2>2, SilenceStands
  <2>4. OneByOne'
    BY <1>1, <2>1, <2>2, ConstantsTyped DEF ServerInv, OneByOne
  <2>5. TypeOK' /\ SessionsAreNew' /\ AdmittedRightly'
    BY <1>3, <2>1, <2>2 DEF ServerInv, TypeOK, Steps, SessionsAreNew, AdmittedRightly
  <2> QED  BY <2>3, <2>4, <2>5 DEF ServerInv
<1>4. CASE ~Http /\ Reply(r, answer, NoSession) /\ answer # "none"
  BY <1>1, <1>2, <1>4, PlainReply
<1>5. CASE Http /\ \E what \in {"accepted", "failed"} : Reply(r, what, NoSession)
  BY <1>1, <1>2, <1>5, PlainReply
<1>6. CASE Http /\ Reply(r, answer, under[r]) /\ answer # "none"
  <2>1. under[r] \in Made /\ under[r] \notin asked[r].gone
    BY <1>1, <1>6 DEF ServerInv, AdmittedRightly
  <2>2. under[r] \in Requests \cup {NoSession}
    BY DEF ServerInv, TypeOK
  <2> QED  BY <1>1, <1>6, <2>1, <2>2, PlainReply
<1> QED  BY <1>3, <1>4, <1>5, <1>6, SendIs

\* A request refused before its session matters.
LEMMA RefusalKeeps ==
    ASSUME ServerInv, NEW r \in Requests,
           Unreadable(r) \/ TooMany(r) \/ WrongKey(r)
    PROVE  ServerInv'
<1>1. \E what \in {"unreadable", "tooMany", "wrongKey"} : Reply(r, what, NoSession)
  BY DEF Unreadable, TooMany, WrongKey
<1>2. /\ Http /\ at[r] \in {"came", "passed", "admitted"}
      /\ UNCHANGED <<transport, asked, under, thread, sessions, allowance, gone>>
  BY DEF Unreadable, TooMany, WrongKey
<1>3. NoSession \in Made /\ NoSession \notin asked[r].gone
  BY NoSessionIsFine DEF ServerInv
<1> QED  BY <1>1, <1>2, <1>3, PlainReply DEF Answers

\* A request that reaches the protocol is answered, or left unanswered.
LEMMA AnswerKeeps ==
    ASSUME ServerInv, NEW r \in Requests, AnswerAtOnce(r) \/ EndCall(r)
    PROVE  ServerInv'
<1>1. \E answer \in {"none", "result", "error", "noMethod", "unreadable"} :
          Send(r, answer)
  BY DEF AnswerAtOnce, EndCall, ForRequests
<1>2. /\ AtProtocol(r) \/ at[r] = "calling"
      /\ UNCHANGED <<transport, asked, under, thread, sessions, allowance, gone>>
  BY DEF AnswerAtOnce, EndCall
<1> QED  BY <1>1, <1>2, SendKeeps

-----------------------------------------------------------------------------
(* The steps that go on in silence *)

\* The lines of an earlier request end before those of a later begin.
LEMMA EarlierAreDone ==
    ASSUME ServerInv, NEW r \in Requests, ~Http, at[r] \notin {"away", "came"}
    PROVE  \A q \in Requests : q < r => ~Unfinished(q)
BY DEF ServerInv, OneByOne, Unfinished

\* Clients come and go, the limiter refills, a computation ends.
LEMMA ComeKeeps ==
    ASSUME ServerInv, NEW r \in Requests, NEW shape \in Shapes,
           NEW s \in Requests \cup {NoSession}, Come(r, shape, s)
    PROVE  ServerInv'
<1> DEFINE new == [kind |-> shape.kind, hasId |-> shape.hasId,
                   key |-> shape.key, names |-> s, gone |-> gone]
<1>1. /\ at[r] = "away" /\ \A q \in Requests : q < r => at[q] # "away"
      /\ s \in Announced \cup {NoSession}
      /\ asked' = [asked EXCEPT ![r] = new]
      /\ at' = [at EXCEPT ![r] = "came"]
      /\ UNCHANGED <<transport, under, thread, sessions, allowance, replies, gone>>
  BY DEF Come
<1>2. /\ at' \in [Requests -> Steps] /\ at'[r] = "came"
      /\ \A q \in Requests \ {r} : at'[q] = at[q] /\ asked'[q] = asked[q]
      /\ asked'[r] = new
  BY <1>1 DEF ServerInv, TypeOK, Steps
<1>3. shape \in Shape
  BY ConstantsTyped
<1>4. TypeOK'
  <2>1. new \in [kind : Kinds, hasId : BOOLEAN, key : BOOLEAN,
                 names : Requests \cup {NoSession}, gone : SUBSET Requests]
    BY <1>3 DEF ServerInv, TypeOK, Shape
  <2> QED  BY <1>1, <1>2, <2>1 DEF ServerInv, TypeOK, Steps
<1>5. Made' = Made /\ (Http' <=> Http)
  BY <1>1 DEF Made, Http
<1>6. s \in Made
  BY <1>1 DEF Announced, ServerInv, RepliesStand, Made
<1>7. OneByOne'
  <2>1. \A q \in Requests : ~(q < q)
    BY ConstantsTyped
  <2> QED  BY <2>1, <1>1, <1>2, <1>5 DEF ServerInv, OneByOne
<1>8. SessionsAreNew'
  BY <1>1, <1>2 DEF ServerInv, SessionsAreNew, TypeOK
<1>9. AdmittedRightly'
  BY <1>1, <1>2, <1>5, <1>6 DEF ServerInv, AdmittedRightly
<1>10. RepliesStand'
  BY <1>1, <1>2, <1>5, SilenceStands
<1> QED  BY <1>4, <1>7, <1>8, <1>9, <1>10 DEF ServerInv

\* What the clock or a thread does changes neither handlers nor sessions.
LEMMA AsideKeeps ==
    ASSUME ServerInv, Refill \/ \E r \in Requests : Compute(r)
    PROVE  ServerInv'
<1>1. UNCHANGED <<transport, asked, at, under, sessions, replies, gone>>
  BY DEF Refill, Compute
<1>2. /\ allowance' \in 0..Burst
      /\ thread' \in [Requests -> {"none", "busy", "result", "error"}]
  BY ConstantsTyped DEF Refill, Compute, ServerInv, TypeOK
<1>3. TypeOK'
  BY <1>1, <1>2 DEF ServerInv, TypeOK
<1>4. Made' = Made /\ (Http' <=> Http)
  BY <1>1 DEF Made, Http
<1>5. RepliesStand'
  BY <1>1, <1>4, SilenceStands
<1> QED
  BY <1>1, <1>3, <1>4, <1>5 DEF ServerInv, OneByOne, SessionsAreNew, AdmittedRightly

\* The client hangs up, the reader ends, the limiter lets a request through, or
\* its call begins.
LEMMA MoveOnKeeps ==
    ASSUME ServerInv, NEW r \in Requests,
           HangUp(r) \/ ReadFails(r) \/ LetThrough(r) \/ StartCall(r)
    PROVE  ServerInv'
<1> DEFINE to == IF at'[r] \in {"dropped", "ended"} THEN at'[r]
                 ELSE IF at[r] = "came" THEN "passed" ELSE "calling"
<1>1. /\ at \in [Requests -> Steps] /\ to \in {"passed", "calling", "dropped", "ended"}
      /\ UNCHANGED <<transport, asked, under, sessions, replies, gone>>
  BY DEF HangUp, ReadFails, LetThrough, StartCall, ServerInv, TypeOK, Steps
<1>2. /\ at' = [at EXCEPT ![r] = to]
      /\ at[r] \in {"came", "passed", "admitted", "calling"}
      /\ at[r] = "came" => to \in {"passed", "dropped", "ended"}
      /\ to = "dropped" => Http
      /\ to = "calling" /\ Http => at[r] = "admitted"
  BY <1>1 DEF HangUp, ReadFails, LetThrough, StartCall, AtProtocol, Steps
<1>3. ~Http => \A q \in Requests : q < r => ~Unfinished(q)
  BY <1>1, <1>2, EarlierAreDone DEF HangUp, ReadFails, LetThrough, StartCall, AtProtocol, ReaderFree
<1>4. TypeOK'
  <2>1. at' \in [Requests -> Steps]
    BY <1>1, <1>2 DEF Steps
  <2>2. /\ allowance' \in 0..Burst
        /\ thread' \in [Requests -> {"none", "busy", "result", "error"}]
    BY ConstantsTyped DEF HangUp, ReadFails, LetThrough, StartCall, ServerInv, TypeOK
  <2> QED  BY <1>1, <2>1, <2>2 DEF ServerInv, TypeOK, Steps
<1>5. Made' = Made /\ (Http' <=> Http)
  BY <1>1 DEF Made, Http
<1>6. /\ at'[r] = to /\ \A q \in Requests \ {r} : at'[q] = at[q]
  BY <1>1, <1>2
<1>7. OneByOne'
  <2>1. \A q \in Requests : ~(q < q)
    BY ConstantsTyped
  <2>2. \A q \in Requests : q < r => at[q] # "away"
    BY <1>2 DEF ServerInv, OneByOne
  <2> QED
    BY <2>1, <2>2, <1>2, <1>3, <1>5, <1>6 DEF ServerInv, OneByOne, Unfinished
<1>8. RepliesStand'
  BY <1>1, <1>2, <1>5, <1>6, SilenceStands
<1>9. SessionsAreNew'
  BY <1>1, <1>2, <1>6 DEF ServerInv, SessionsAreNew, TypeOK
<1>10. AdmittedRightly'
  BY <1>1, <1>2, <1>5, <1>6 DEF ServerInv, AdmittedRightly
<1> QED  BY <1>4, <1>7, <1>8, <1>9, <1>10 DEF ServerInv

-----------------------------------------------------------------------------
(* The session table *)

\* A session made by an initialize is new, so its deletion is in nobody's past.
LEMMA MakeSessionKeeps ==
    ASSUME ServerInv, NEW r \in Requests, MakeSession(r)
    PROVE  ServerInv'
<1>1. /\ Http /\ at[r] = "passed" /\ sessions' = sessions \cup {r}
      /\ under' = [under EXCEPT ![r] = r] /\ at' = [at EXCEPT ![r] = "admitted"]
      /\ UNCHANGED <<transport, asked, thread, allowance, replies, gone>>
  BY DEF MakeSession
<1>2. /\ at' \in [Requests -> Steps] /\ at'[r] = "admitted" /\ under'[r] = r
      /\ \A q \in Requests \ {r} : at'[q] = at[q] /\ under'[q] = under[q]
  BY <1>1 DEF ServerInv, TypeOK, Steps
<1>3. TypeOK'
  BY <1>1, <1>2 DEF ServerInv, TypeOK, Steps
<1>4. Made' = Made \cup {r} /\ Http'
  BY <1>1 DEF Made, Http
<1>5. r \notin gone
  BY <1>1 DEF ServerInv, SessionsAreNew
<1>6. OneByOne'
  BY <1>1, <1>2, <1>4 DEF ServerInv, OneByOne
<1>7. SessionsAreNew'
  BY <1>1, <1>2, <1>5 DEF ServerInv, SessionsAreNew, TypeOK
<1>8. AdmittedRightly'
  BY <1>1, <1>2, <1>4, <1>5 DEF ServerInv, AdmittedRightly
<1>9. RepliesStand'
  BY <1>1, <1>2, <1>4, SilenceStands
<1> QED  BY <1>3, <1>6, <1>7, <1>8, <1>9 DEF ServerInv

\* A session that is found is not one whose deletion has been confirmed.
LEMMA FindSessionKeeps ==
    ASSUME ServerInv, NEW r \in Requests, FindSession(r)
    PROVE  ServerInv'
<1> USE DEF Known
<1>1. /\ Http /\ at[r] = "passed" /\ asked[r].names \in Made
      /\ UNCHANGED <<transport, asked, thread, sessions, allowance, gone>>
  BY DEF FindSession, ServerInv, AdmittedRightly
<1>2. CASE asked[r].names \notin sessions
  <2>1. Reply(r, "noSession", NoSession) /\ UNCHANGED under
    BY <1>2 DEF FindSession
  <2>2. asked[r].names \in gone \cup {NoSession}
    BY <1>1, <1>2 DEF Made
  <2>3. NoSession \in Made /\ NoSession \notin asked[r].gone
    BY NoSessionIsFine DEF ServerInv
  <2> QED  BY <1>1, <2>1, <2>2, <2>3, PlainReply DEF Answers
<1>3. CASE asked[r].names \in sessions
  <2>1. /\ under' = [under EXCEPT ![r] = asked[r].names]
        /\ at' = [at EXCEPT ![r] = "admitted"] /\ UNCHANGED replies
    BY <1>3 DEF FindSession
  <2>2. /\ at' \in [Requests -> Steps] /\ at'[r] = "admitted"
        /\ under'[r] = asked[r].names
        /\ \A q \in Requests \ {r} : at'[q] = at[q] /\ under'[q] = under[q]
    BY <2>1 DEF ServerInv, TypeOK, Steps
  <2>3. Made' = Made /\ Http'
    BY <1>1 DEF Made, Http
  <2>4. TypeOK'
    BY <1>1, <2>1, <2>2 DEF ServerInv, TypeOK, Steps
  <2>5. asked[r].names \notin asked[r].gone
    BY <1>3 DEF ServerInv, SessionsAreNew, AdmittedRightly
  <2>6. OneByOne'
    BY <1>1, <2>2, <2>3 DEF ServerInv, OneByOne
  <2>7. SessionsAreNew'
    BY <1>1, <2>2 DEF ServerInv, SessionsAreNew, TypeOK
  <2>8. AdmittedRightly'
    BY <1>1, <2>2, <2>3, <2>5 DEF ServerInv, AdmittedRightly
  <2>9. RepliesStand'
    BY <1>1, <2>1, <2>2, <2>3, SilenceStands
  <2> QED  BY <2>4, <2>6, <2>7, <2>8, <2>9 DEF ServerInv
<1> QED  BY <1>2, <1>3

\* An event stream is refused, or begins with a session that is new.
LEMMA OpenStreamKeeps ==
    ASSUME ServerInv, NEW r \in Requests, OpenStream(r)
    PROVE  ServerInv'
<1> USE DEF Answers
<1>1. /\ at[r] = "passed" /\ Kind(r) = "open"
      /\ UNCHANGED <<transport, asked, under, thread, allowance, gone>>
  BY DEF OpenStream
<1>2. CASE asked[r].names # NoSession
  <2>1. Reply(r, "notAllowed", NoSession) /\ UNCHANGED sessions
    BY <1>2 DEF OpenStream
  <2>2. NoSession \in Made /\ NoSession \notin asked[r].gone
    BY NoSessionIsFine DEF ServerInv
  <2> QED  BY <1>1, <2>1, <2>2, PlainReply
<1>3. CASE asked[r].names = NoSession
  <2>1. Reply(r, "stream", r) /\ sessions' = sessions \cup {r}
    BY <1>3 DEF OpenStream
  <2>2. Made' = Made \cup {r} /\ (Http' <=> Http)
    BY <1>1, <2>1 DEF Made, Http
  <2>3. r \notin gone /\ r \notin asked[r].gone
    BY <1>1 DEF ServerInv, SessionsAreNew, AdmittedRightly
  <2>4. OneByOne' /\ RepliesStand'
    BY <1>1, <2>1, <2>2, <2>3, ReplyStands
  <2>5. /\ at' \in [Requests -> Steps] /\ replies' \in Seq(Replies)
        /\ at'[r] = "settled" /\ \A q \in Requests \ {r} : at'[q] = at[q]
    BY <2>1, ReplyTyped DEF ServerInv
  <2>6. TypeOK'
    BY <1>1, <2>1, <2>5 DEF ServerInv, TypeOK, Steps, Replies
  <2>7. SessionsAreNew'
    BY <1>1, <2>1, <2>3, <2>5 DEF ServerInv, SessionsAreNew, TypeOK
  <2>8. AdmittedRightly'
    BY <1>1, <2>2, <2>5 DEF ServerInv, AdmittedRightly
  <2> QED  BY <2>4, <2>6, <2>7, <2>8 DEF ServerInv
<1> QED  BY <1>2, <1>3

\* A deletion moves a session to those that are gone.
LEMMA DeleteKeeps ==
    ASSUME ServerInv, NEW r \in Requests, Delete(r)
    PROVE  ServerInv'
<1> USE DEF Answers
<1>1. /\ at[r] = "passed"
      /\ UNCHANGED <<transport, asked, under, thread, allowance>>
  BY DEF Delete
<1>2. NoSession \in Made /\ NoSession \notin asked[r].gone
  BY NoSessionIsFine DEF ServerInv
<1>3. CASE asked[r].names \notin sessions
  <2>1. Reply(r, "notFound", NoSession) /\ UNCHANGED <<sessions, gone>>
    BY <1>3 DEF Delete
  <2> QED  BY <1>1, <1>2, <2>1, PlainReply
<1>4. CASE asked[r].names \in sessions
  <2> DEFINE s == asked[r].names
  <2>1. /\ sessions' = sessions \ {s} /\ gone' = gone \cup {s}
        /\ Reply(r, "deleted", NoSession)
    BY <1>4 DEF Delete
  <2>2. Made' = Made /\ (Http' <=> Http)
    BY <1>1, <1>4, <2>1 DEF Made, Http
  <2>3. OneByOne' /\ RepliesStand'
    BY <1>1, <1>2, <2>1, <2>2, ReplyStands
  <2>4. /\ at' \in [Requests -> Steps] /\ replies' \in Seq(Replies)
        /\ at'[r] = "settled" /\ \A q \in Requests \ {r} : at'[q] = at[q]
    BY <2>1, ReplyTyped DEF ServerInv
  <2>5. TypeOK'
    BY <1>1, <1>4, <2>1, <2>4 DEF ServerInv, TypeOK, Steps, Replies
  <2>6. SessionsAreNew'
    BY <1>1, <1>4, <2>1, <2>4 DEF ServerInv, SessionsAreNew, TypeOK
  <2>7. AdmittedRightly'
    BY <1>1, <2>1, <2>2, <2>4 DEF ServerInv, AdmittedRightly
  <2> QED  BY <2>3, <2>5, <2>6, <2>7 DEF ServerInv
<1> QED  BY <1>3, <1>4

-----------------------------------------------------------------------------

\* Before any request comes there is nothing to relate.
LEMMA ServerInvInit == Init => ServerInv
<1> SUFFICES ASSUME Init PROVE ServerInv
  OBVIOUS
<1>1. TypeOK
  BY ConstantsTyped DEF Init, TypeOK, NotAsked, NoSession, Kinds
<1>2. OneByOne /\ SessionsAreNew /\ AdmittedRightly
  BY DEF Init, OneByOne, SessionsAreNew, AdmittedRightly, NotAsked, Made
<1>3. RepliesStand
  BY DEF Init, RepliesStand, LinesInOrder, DeletedStaysDeleted, SessionsAreKept
<1> QED  BY <1>1, <1>2, <1>3 DEF ServerInv

\* Every step of every handler keeps the invariant.
LEMMA ServerInvNext == ServerInv /\ [Next]_vars => ServerInv'
<1> SUFFICES ASSUME ServerInv, [Next]_vars PROVE ServerInv'
  OBVIOUS
<1>1. CASE UNCHANGED vars
  BY <1>1 DEF vars, ServerInv, TypeOK, OneByOne, SessionsAreNew, AdmittedRightly,
     RepliesStand, LinesInOrder, DeletedStaysDeleted, SessionsAreKept, Http, Made
<1>2. CASE Refill \/ \E r \in Requests : Compute(r)
  BY <1>2, AsideKeeps
<1>3. ASSUME NEW r \in Requests, NEW shape \in Shapes,
             NEW s \in Requests \cup {NoSession}, Come(r, shape, s)
      PROVE  ServerInv'
  BY <1>3, ComeKeeps
<1>4. ASSUME NEW r \in Requests, HangUp(r) \/ Handle(r) PROVE ServerInv'
  BY <1>4, RefusalKeeps, MoveOnKeeps, MakeSessionKeeps, FindSessionKeeps,
     OpenStreamKeeps, DeleteKeeps, AnswerKeeps DEF Handle
<1> QED  BY <1>1, <1>2, <1>3, <1>4 DEF Next

\* The invariant of the server, from which the four theorems follow.
LEMMA ServerInvHolds == Spec => []ServerInv
BY ServerInvInit, ServerInvNext, PTL DEF Spec

\* Types.
THEOREM ServerTypeCorrect == Spec => []TypeOK
<1>1. ServerInv => TypeOK
  BY DEF ServerInv
<1> QED  BY ServerInvHolds, <1>1, PTL

\* On standard output replies come in the order of the lines they answer.
THEOREM RepliesInLineOrder == Spec => []LinesInOrder
<1>1. ServerInv => LinesInOrder
  BY DEF ServerInv, RepliesStand
<1> QED  BY ServerInvHolds, <1>1, PTL

\* Nothing is served under a session whose deletion was confirmed before the
\* request came.
THEOREM NothingUnderDeleted == Spec => []DeletedStaysDeleted
<1>1. ServerInv => DeletedStaysDeleted
  BY DEF ServerInv, RepliesStand
<1> QED  BY ServerInvHolds, <1>1, PTL

\* A session that was announced is refused only after someone deleted it.
THEOREM SessionsStayUntilDeleted == Spec => []SessionsAreKept
<1>1. ServerInv => SessionsAreKept
  BY DEF ServerInv, RepliesStand
<1> QED  BY ServerInvHolds, <1>1, PTL
=============================================================================
