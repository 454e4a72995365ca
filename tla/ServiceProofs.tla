--------------------------- MODULE ServiceProofs ---------------------------
(***************************************************************************)
(* Proofs about the service.                                               *)
(*                                                                         *)
(* About PromptSession, for any set of prompts and any number of rounds    *)
(* and of sessions at once: what the phone sees is an answer in order      *)
(* (PromptAnswer), the threads in Redis are whole conversations, and the   *)
(* verifier warns of claims as explained.                                  *)
(*                                                                         *)
(* About Quota, for every number of sessions, every quota and every cost:  *)
(* how far a month is overshot, and why a counter may never expire.        *)
(***************************************************************************)
EXTENDS PromptSession, Quota, FiniteSetTheorems, SequenceTheorems,
        WellFoundedInduction, TLAPS

\* Where a session has its thread, and all that was called is answered.
Running == {"admit", "stream", "settle", "verify", "done", "store"}

\* Where a session has its thread stored, or Redis has refused it.
Stored == {"name", "close", "ended"}

\* Where the verifier is done with the thread, which does not change any more.
Judged == {"done", "store", "name", "close"}

\* How far the answer is, at each point of the goroutine: told only while the
\* phone is there, cut from when it is not.
PositionOf(s) ==
    /\ pc[s] = "idle" => seen[s] = "none" /\ conn[s] = "broken"
    /\ pc[s] = "ended" => conn[s] = "broken"
    /\ conn[s] = "open" =>
          \/ /\ pc[s] \in {"restore", "admit", "stream", "settle", "call",
                           "verify"}
             /\ seen[s] = "text"
          \/ pc[s] = "done" /\ seen[s] \in {"text", "warned"}
          \/ pc[s] \in {"store", "name"} /\ seen[s] = "done"
          \/ pc[s] = "close" /\ seen[s] = "named"
    /\ conn[s] # "open" /\ pc[s] \notin {"idle", "ended"} => seen[s] = "cut"

Position == \A s \in Session : PositionOf(s)

\* A function is called only in a round in which functions were offered.
Offered ==
    \A s \in Session :
        /\ pc[s] \in {"idle", "restore", "admit"} => call[s] = ""
        /\ call[s] # "" => rounds[s] <= MaxRounds

\* A session that restores a thread has one to restore.
Restoring ==
    \A s \in Session : pc[s] = "restore" => orig[s] # NoThread

\* The thread that s goes on with: none of its own messages in it.
Origin(s) == IF orig[s] = NoThread THEN <<>> ELSE store[orig[s]]

\* The thread t begins with the thread u (if it is still stored) and the prompt
\* of s, which it has once.
Begins(s, u, t) ==
    /\ u # NoThread =>
          /\ Len(u) < Len(t)
          /\ \A i \in 1..Len(u) : t[i] = u[i]
          /\ t[Len(u) + 1] = Said(s, "user")
    /\ \E k \in 1..Len(t) : \A i \in 1..Len(t) : t[i] = Said(s, "user") <=> i = k

\* Of the first n messages of t, the calls are those with their response right
\* behind.
Answered(t, n) ==
    \A i \in 1..n :
        t[i].kind \in Calls <=>
            i < n /\ t[i + 1].kind \in Responses /\ t[i + 1].of = t[i].of

\* The thread a session has is a whole conversation but for the call it is about
\* to have answered.
Whole(s) ==
    /\ pc[s] \in {"idle", "ended"} => messages[s] = <<>>
    /\ pc[s] = "restore" => messages[s] = <<Said(s, "user")>>
    /\ pc[s] \in Running =>
          /\ Begins(s, Origin(s), messages[s])
          /\ Answered(messages[s], Len(messages[s]))
    /\ pc[s] = "call" =>
          /\ Begins(s, Origin(s), messages[s])
          /\ call[s] # ""
          /\ messages[s][Len(messages[s])] = Said(s, call[s])
          /\ Answered(messages[s], Len(messages[s]) - 1)

\* So is the thread it has stored.
StoredWhole(s) ==
    store[s] # NoThread =>
        /\ Begins(s, Origin(s), store[s])
        /\ Answered(store[s], Len(store[s]))

\* A thread is continued by the phone that its id was sent to.
Continued == \A s \in Session : orig[s] # NoThread => orig[s] \in knows

\* A thread is stored by a session that has come to it; its id is sent once it
\* was stored or refused, and to a phone that has missed nothing.
Known(s) ==
    /\ store[s] # NoThread => pc[s] \in Stored
    /\ s \in knows => pc[s] \in {"close", "ended"}
    /\ pc[s] \in {"name", "close"} \/ s \in knows =>
          store[s] # NoThread \/ s \in unstored
    /\ s \in missed => conn[s] = "broken" /\ pc[s] # "idle" /\ s \notin knows

\* Nothing a session says is in the thread of another before it is stored.
Foreign(s) ==
    /\ store[s] # NoThread =>
          \A i \in 1..Len(store[s]) : pc[store[s][i].of] \in Stored
    /\ \A i \in 1..Len(messages[s]) :
          messages[s][i].of = s \/ pc[messages[s][i].of] \in Stored

\* What s has said comes last in its thread, and is all of it if it continues
\* none.
OwnLast(s) ==
    /\ \A i, j \in 1..Len(messages[s]) :
          i < j /\ messages[s][i].of = s => messages[s][j].of = s
    /\ orig[s] = NoThread => \A i \in 1..Len(messages[s]) : messages[s][i].of = s

\* The last thing the model says in t is a claim, and nothing in t was set.
LiesIn(t) ==
    LET mine == {i \in 1..Len(t) : IsModels(t[i])}
        last == IF mine = {} THEN 0 ELSE CHOOSE i \in mine : \A j \in mine : j <= i
    IN  /\ last # 0
        /\ t[last].kind = "claim"
        /\ ~ \E i \in 1..Len(t) : t[i].kind = "set"

\* The verdict is on the thread as it is stored.
Verdict(s) ==
    /\ pc[s] \notin Judged \union {"ended"} => verdict[s] = {}
    /\ pc[s] \in Judged /\ conn[s] = "open" =>
          verdict[s] # {} \/ ~LiesIn(messages[s])
    /\ pc[s] \in Judged /\ "warned" \in verdict[s] => LiesIn(messages[s])

IInv ==
    /\ TypeOK
    /\ Offered
    /\ Restoring
    /\ Position
    /\ Continued
    /\ \A s \in Session : Known(s)
    /\ \A s \in Session : Foreign(s)
    /\ \A s \in Session : Whole(s)
    /\ \A s \in Session : StoredWhole(s)
    /\ \A s \in Session : OwnLast(s)
    /\ \A s \in Session : Verdict(s)

-----------------------------------------------------------------------------
(* Facts about numbers and sequences.                                      *)

\* Every nonempty set of natural numbers has a least element.
LEMMA LeastExists ==
    ASSUME NEW S \in SUBSET Nat, S # {}
    PROVE  \E i \in S : \A j \in S : i <= j
<1> DEFINE R == {ss \in Nat \X Nat : ss[1] < ss[2]}
<1>1. OpToRel(<, Nat) = R
  BY Zenon DEF OpToRel
<1>2. IsWellFoundedOn(R, Nat)
  BY <1>1, NatLessThanWellFounded
<1>3. PICK i \in S : \A j \in S : ~ (<<j, i>> \in R)
  <2> HIDE DEF R
  <2> QED
    BY <1>2, WFMin, Zenon
<1>4. \A j \in S : ~ (j < i)
  BY <1>3
<1> QED
  BY <1>4

\* Every nonempty set of numbers up to n has a greatest element.
LEMMA GreatestExists ==
    ASSUME NEW n \in Nat, NEW S \in SUBSET (1..n), S # {}
    PROVE  \E i \in S : \A j \in S : j <= i
<1> DEFINE T == {k \in Nat : n - k \in S}
<1>1. PICK x \in S : TRUE
  OBVIOUS
<1>2. n - x \in T
  BY <1>1
<1>3. PICK t \in T : \A u \in T : t <= u
  BY <1>2, LeastExists
<1>4. ASSUME NEW j \in S PROVE j <= n - t
  <2>1. n - j \in T
    OBVIOUS
  <2> QED
    BY <2>1, <1>3
<1> QED
  BY <1>3, <1>4

-----------------------------------------------------------------------------
(* Types.                                                                  *)


LEMMA SaidType ==
    ASSUME NEW s \in Session, NEW kind \in Kinds
    PROVE  Said(s, kind) \in Message
BY DEF Said, Message

\* The constants, as far as the types depend on them.
LEMMA Constants ==
    /\ MaxRounds \in Nat
    /\ 0 \in 0..MaxRounds + 1 /\ 1 \in 0..MaxRounds + 1
    /\ NoThread \notin Session
    /\ NoThread \notin Seq(Message)
BY PromptAssumption

LEMMA OneMessage ==
    ASSUME NEW s \in Session, NEW kind \in Kinds
    PROVE  <<Said(s, kind)>> \in Seq(Message)
<1>1. Said(s, kind) \in Message
  BY SaidType
<1> HIDE DEF Said
<1> QED
  BY <1>1

LEMMA InitType == Init => TypeOK /\ Offered /\ Restoring
<1> SUFFICES ASSUME Init PROVE TypeOK /\ Offered /\ Restoring
  OBVIOUS
<1>1. messages \in [Session -> Seq(Message)]
  BY EmptySeq DEF Init
<1>2. TypeOK
  BY <1>1, Constants DEF Init, TypeOK
<1>3. Offered /\ Restoring
  BY DEF Init, Offered, Restoring
<1> QED
  BY <1>2, <1>3

\* What a session says keeps the type of its messages.
LEMMA SpokenType ==
    ASSUME TypeOK, NEW s \in Session
    PROVE  Spoken(s) \in Seq(Message)
<1>1. CASE content[s] = ""
  BY <1>1, EmptySeq DEF Spoken
<1>2. CASE content[s] # ""
  <2>1. <<Said(s, content[s])>> \in Seq(Message)
    BY <1>2, OneMessage DEF TypeOK, Kinds
  <2> QED
    BY <1>2, <2>1 DEF Spoken
<1> QED
  BY <1>1, <1>2

LEMMA ThreadType ==
    ASSUME TypeOK, Restoring, [Next]_vars
    PROVE  /\ messages' \in [Session -> Seq(Message)]
           /\ store' \in [Session -> Seq(Message) \union {NoThread}]
<1> USE DEF TypeOK
<1> DEFINE Typed == /\ messages' \in [Session -> Seq(Message)]
                    /\ store' \in [Session -> Seq(Message) \union {NoThread}]
<1>1. ASSUME NEW s \in Session, NewPromptSession(s) PROVE Typed
  <2>1. <<Said(s, "user")>> \in Seq(Message)
    BY OneMessage DEF Kinds
  <2> QED
    BY <1>1, <2>1 DEF NewPromptSession
<1>2. ASSUME NEW s \in Session, RestoreThread(s) PROVE Typed
  <2>1. orig[s] \in Session
    BY <1>2 DEF RestoreThread, Restoring
  <2>2. store[orig[s]] \in Seq(Message)
    BY <1>2, <2>1 DEF RestoreThread
  <2>3. store[orig[s]] \o messages[s] \in Seq(Message)
    BY <2>2, ConcatProperties
  <2> QED
    BY <1>2, <2>3 DEF RestoreThread
<1>3. ASSUME NEW s \in Session, Stop(s) PROVE Typed
  <2>1. messages[s] \o Spoken(s) \in Seq(Message)
    BY SpokenType, ConcatProperties
  <2> QED
    BY <1>3, <2>1 DEF Stop
<1>4. ASSUME NEW s \in Session, Think(s) PROVE Typed
  <2>1. messages[s] \o Spoken(s) \in Seq(Message)
    BY SpokenType, ConcatProperties
  <2>2. <<Said(s, call[s])>> \in Seq(Message)
    BY <1>4, OneMessage DEF Think, Kinds
  <2>3. (messages[s] \o Spoken(s)) \o <<Said(s, call[s])>> \in Seq(Message)
    BY <2>1, <2>2, ConcatProperties
  <2> QED
    BY <1>4, <2>3 DEF Think
<1>5. ASSUME NEW s \in Session, NEW response \in Responses, Respond(s, response)
      PROVE  Typed
  <2>1. Said(s, response) \in Message
    BY SaidType DEF Kinds
  <2>2. Append(messages[s], Said(s, response)) \in Seq(Message)
    BY <2>1, AppendProperties
  <2> QED
    BY <1>5, <2>2 DEF Respond
<1>6. ASSUME NEW s \in Session, Return(s), store' = store PROVE Typed
  BY <1>6, EmptySeq DEF Return
<1>7. ASSUME NEW s \in Session, StoreThread(s) PROVE Typed
  BY <1>7 DEF StoreThread
<1>8. ASSUME NEW s \in Session, Expire(s) PROVE Typed
  BY <1>8 DEF Expire
<1>9. ASSUME UNCHANGED <<messages, store>> PROVE Typed
  BY <1>9
<1> HIDE DEF Typed, TypeOK
<1>10. ASSUME NEW s \in Session, Start(s) PROVE Typed
  BY <1>10, <1>1, <1>2, <1>6, <1>9 DEF Start, RestoreFails, Admit, Refuse, End, round, history
<1>11. ASSUME NEW s \in Session, Stream(s) PROVE Typed
  BY <1>11, <1>6, <1>9
     DEF Stream, Chunk, ChunkFails, StreamCall, StreamError, EndStream, End,
         round, history
<1>12. ASSUME NEW s \in Session, Settle(s) PROVE Typed
  BY <1>12, <1>3, <1>4, <1>6 DEF Settle, ThinkFails
<1>13. ASSUME NEW s \in Session, Called(s) PROVE Typed
  BY <1>13, <1>5 DEF Called, CallFunction, CallAction, ActionFails, Responses
<1>14. ASSUME NEW s \in Session, Conclude(s) PROVE Typed
  BY <1>14, <1>6, <1>7, <1>9
     DEF Conclude, FindNoLies, FindLies, WriteDone, WriteThreadId, Close, End,
         round, history
<1>15. ASSUME NEW s \in Session, Environment(s) PROVE Typed
  BY <1>15, <1>8, <1>9 DEF Environment, HangUp, round, history
<1>16. ASSUME UNCHANGED vars PROVE Typed
  BY <1>9, <1>16 DEF vars
<1>17. Typed
  BY <1>10, <1>11, <1>12, <1>13, <1>14, <1>15, <1>16 DEF Next
<1> QED
  BY <1>17 DEF Typed

LEMMA TypeStep ==
    ASSUME TypeOK, Offered, Restoring, [Next]_vars
    PROVE  TypeOK'
<1> USE DEF TypeOK, Goto, Shows, WriteSucceeds, WriteFails, End, Return,
            round, history, Texts, Calls, Endings
<1> USE Constants, ThreadType
<1>1. ASSUME NEW s \in Session, NewPromptSession(s) PROVE TypeOK'
  <2>1. PICK o \in knows \union {NoThread} :
          /\ orig' = [orig EXCEPT ![s] = o]
          /\ Goto(s, IF o = NoThread THEN "admit" ELSE "restore")
    BY <1>1 DEF NewPromptSession
  <2>2. pc' = [pc EXCEPT ![s] = "admit"] \/ pc' = [pc EXCEPT ![s] = "restore"]
    BY <2>1
  <2> QED
    BY <1>1, <2>1, <2>2 DEF NewPromptSession
<1>2. ASSUME NEW s \in Session, RestoreThread(s) PROVE TypeOK'
  BY <1>2 DEF RestoreThread
<1>3. ASSUME NEW s \in Session, RestoreFails(s) PROVE TypeOK'
  BY <1>3 DEF RestoreFails
<1>4. ASSUME NEW s \in Session, Admit(s) PROVE TypeOK'
  BY <1>4 DEF Admit
<1>5. ASSUME NEW s \in Session, Refuse(s) PROVE TypeOK'
  <2>1. PICK last \in {"refused", "failed"} : End(s, last)
    BY <1>5 DEF Refuse
  <2>2. seen' = [seen EXCEPT ![s] = last] \/ seen' = seen
    BY <2>1
  <2> QED
    BY <1>5, <2>1, <2>2 DEF Refuse
<1>6. ASSUME NEW s \in Session, Chunk(s) PROVE TypeOK'
  <2>1. PICK t \in Texts :
          content' = [content EXCEPT ![s] = IF @ = "claim" THEN @ ELSE t]
    BY <1>6 DEF Chunk
  <2>2. content' = content \/ content' = [content EXCEPT ![s] = t]
    BY <2>1
  <2>3. content' \in [Session -> Texts \union {""}]
    BY <2>2
  <2> QED
    BY <1>6, <2>3 DEF Chunk
<1>7. ASSUME NEW s \in Session, ChunkFails(s) PROVE TypeOK'
  BY <1>7 DEF ChunkFails
<1>8. ASSUME NEW s \in Session, StreamCall(s) PROVE TypeOK'
  <2>1. PICK f \in Calls : call' = [call EXCEPT ![s] = f]
    BY <1>8 DEF StreamCall
  <2> QED
    BY <1>8, <2>1 DEF StreamCall
<1>9. ASSUME NEW s \in Session, StreamError(s) PROVE TypeOK'
  BY <1>9 DEF StreamError
<1>10. ASSUME NEW s \in Session, EndStream(s) PROVE TypeOK'
  BY <1>10 DEF EndStream
<1>11. ASSUME NEW s \in Session, Stop(s) PROVE TypeOK'
  BY <1>11 DEF Stop
<1>12. ASSUME NEW s \in Session, Think(s) PROVE TypeOK'
  BY <1>12 DEF Think
<1>13. ASSUME NEW s \in Session, ThinkFails(s) PROVE TypeOK'
  BY <1>13 DEF ThinkFails
<1>14. ASSUME NEW s \in Session, FindNoLies(s) PROVE TypeOK'
  BY <1>14 DEF FindNoLies
<1>15. ASSUME NEW s \in Session, FindLies(s) PROVE TypeOK'
  <2>1. verdict' = [verdict EXCEPT ![s] = {"warned"}] \/ verdict' = verdict
    BY <1>15 DEF FindLies
  <2>2. {"warned"} \in SUBSET {"warned", "silent"}
    OBVIOUS
  <2>3. verdict' \in [Session -> SUBSET {"warned", "silent"}]
    BY <2>1, <2>2
  <2> QED
    BY <1>15, <2>3 DEF FindLies
<1>16. ASSUME NEW s \in Session, WriteDone(s) PROVE TypeOK'
  BY <1>16 DEF WriteDone
<1>17. ASSUME NEW s \in Session, StoreThread(s) PROVE TypeOK'
  BY <1>17 DEF StoreThread
<1>18. ASSUME NEW s \in Session, WriteThreadId(s) PROVE TypeOK'
  BY <1>18 DEF WriteThreadId
<1>19. ASSUME NEW s \in Session, Close(s) PROVE TypeOK'
  BY <1>19 DEF Close
<1>20. ASSUME NEW s \in Session, HangUp(s) PROVE TypeOK'
  BY <1>20 DEF HangUp
<1>21. ASSUME NEW s \in Session, Expire(s) PROVE TypeOK'
  BY <1>21 DEF Expire
<1>22. ASSUME NEW s \in Session, NEW response \in Responses,
              Respond(s, response), call[s] # "",
              \/ conn' = conn /\ seen' = seen
              \/ conn' = [conn EXCEPT ![s] = "broken"] /\ Shows(s, "cut")
       PROVE  TypeOK'
  <2>1. rounds[s] + 1 \in 0..MaxRounds + 1
    <3>1. rounds[s] <= MaxRounds
      BY <1>22 DEF Offered
    <3>2. rounds[s] \in 0..MaxRounds + 1
      OBVIOUS
    <3> QED
      BY ONLY <3>1, <3>2, Constants
  <2>2. rounds' \in [Session -> 0..MaxRounds + 1]
    BY <1>22, <2>1 DEF Respond
  <2>3. seen' = seen \/ seen' = [seen EXCEPT ![s] = "cut"]
    BY <1>22
  <2>4. /\ pc' = [pc EXCEPT ![s] = "stream"]
        /\ call' = [call EXCEPT ![s] = ""]
    BY <1>22 DEF Respond
  <2>5. conn' \in [Session -> {"open", "gone", "broken"}]
    BY <1>22
  <2>6. seen' \in [Session -> {"none", "text", "warned", "done", "named"}
                               \union Endings]
    BY <2>3
  <2>7. UNCHANGED <<orig, content, knows, missed, unstored, verdict>>
    BY <1>22 DEF Respond
  <2> QED
    BY <2>2, <2>4, <2>5, <2>6, <2>7
<1>23. ASSUME NEW s \in Session, Called(s) PROVE TypeOK'
  <2> HIDE DEF TypeOK
  <2>1. PICK response \in Responses : Respond(s, response)
    BY <1>23 DEF Called, CallFunction, CallAction, ActionFails, Responses
  <2>2. call[s] # ""
    BY <1>23 DEF Called, CallFunction, CallAction, ActionFails
  <2>3. \/ conn' = conn /\ seen' = seen
        \/ conn' = [conn EXCEPT ![s] = "broken"] /\ Shows(s, "cut")
    BY <1>23 DEF Called, CallFunction, CallAction, ActionFails
  <2> QED
    BY <1>22, <2>1, <2>2, <2>3
<1>24. CASE UNCHANGED vars
  BY <1>24 DEF vars
<1> QED
  BY <1>1, <1>2, <1>3, <1>4, <1>5, <1>6, <1>7, <1>8, <1>9, <1>10, <1>11,
     <1>12, <1>13, <1>14, <1>15, <1>16, <1>17, <1>18, <1>19, <1>20, <1>21,
     <1>22, <1>23, <1>24
     DEF Next, Start, Stream, Settle, Conclude, Environment

-----------------------------------------------------------------------------
(* What the phone sees.                                                    *)

LEMMA OfferedStep ==
    ASSUME TypeOK, Offered, Restoring, [Next]_vars
    PROVE  Offered' /\ Restoring'
<1> USE DEF TypeOK, Goto, Shows, WriteSucceeds, WriteFails, End, Return,
            round, history, Offered, Restoring, OffersTools
<1>1. ASSUME NEW s \in Session, NewPromptSession(s) PROVE Offered' /\ Restoring'
  BY <1>1 DEF NewPromptSession
<1>2. ASSUME NEW s \in Session, RestoreThread(s) PROVE Offered' /\ Restoring'
  BY <1>2 DEF RestoreThread
<1>3. ASSUME NEW s \in Session, RestoreFails(s) PROVE Offered' /\ Restoring'
  BY <1>3 DEF RestoreFails
<1>4. ASSUME NEW s \in Session, Admit(s) PROVE Offered' /\ Restoring'
  BY <1>4 DEF Admit
<1>5. ASSUME NEW s \in Session, Refuse(s) PROVE Offered' /\ Restoring'
  <2>1. PICK last \in {"refused", "failed"} : End(s, last)
    BY <1>5 DEF Refuse
  <2> QED
    BY <1>5, <2>1 DEF Refuse
<1>6. ASSUME NEW s \in Session, Chunk(s) PROVE Offered' /\ Restoring'
  BY <1>6 DEF Chunk
<1>7. ASSUME NEW s \in Session, ChunkFails(s) PROVE Offered' /\ Restoring'
  BY <1>7 DEF ChunkFails
<1>8. ASSUME NEW s \in Session, StreamCall(s) PROVE Offered' /\ Restoring'
  BY <1>8 DEF StreamCall
<1>9. ASSUME NEW s \in Session, StreamError(s) PROVE Offered' /\ Restoring'
  BY <1>9 DEF StreamError
<1>10. ASSUME NEW s \in Session, EndStream(s) PROVE Offered' /\ Restoring'
  BY <1>10 DEF EndStream
<1>11. ASSUME NEW s \in Session, Stop(s) PROVE Offered' /\ Restoring'
  BY <1>11 DEF Stop
<1>12. ASSUME NEW s \in Session, Think(s) PROVE Offered' /\ Restoring'
  BY <1>12 DEF Think
<1>13. ASSUME NEW s \in Session, ThinkFails(s) PROVE Offered' /\ Restoring'
  BY <1>13 DEF ThinkFails
<1>14. ASSUME NEW s \in Session, CallFunction(s) PROVE Offered' /\ Restoring'
  BY <1>14 DEF CallFunction, Respond
<1>15. ASSUME NEW s \in Session, CallAction(s) PROVE Offered' /\ Restoring'
  BY <1>15 DEF CallAction, Respond
<1>16. ASSUME NEW s \in Session, ActionFails(s) PROVE Offered' /\ Restoring'
  BY <1>16 DEF ActionFails, Respond
<1>17. ASSUME NEW s \in Session, FindNoLies(s) PROVE Offered' /\ Restoring'
  BY <1>17 DEF FindNoLies
<1>18. ASSUME NEW s \in Session, FindLies(s) PROVE Offered' /\ Restoring'
  BY <1>18 DEF FindLies
<1>19. ASSUME NEW s \in Session, WriteDone(s) PROVE Offered' /\ Restoring'
  BY <1>19 DEF WriteDone
<1>20. ASSUME NEW s \in Session, StoreThread(s) PROVE Offered' /\ Restoring'
  BY <1>20 DEF StoreThread
<1>21. ASSUME NEW s \in Session, WriteThreadId(s) PROVE Offered' /\ Restoring'
  BY <1>21 DEF WriteThreadId
<1>22. ASSUME NEW s \in Session, Close(s) PROVE Offered' /\ Restoring'
  BY <1>22 DEF Close
<1>23. ASSUME NEW s \in Session, HangUp(s) PROVE Offered' /\ Restoring'
  BY <1>23 DEF HangUp
<1>24. ASSUME NEW s \in Session, Expire(s) PROVE Offered' /\ Restoring'
  BY <1>24 DEF Expire
<1>25. CASE UNCHANGED vars
  BY <1>25 DEF vars
<1> QED
  BY <1>1, <1>2, <1>3, <1>4, <1>5, <1>6, <1>7, <1>8, <1>9, <1>10, <1>11,
     <1>12, <1>13, <1>14, <1>15, <1>16, <1>17, <1>18, <1>19, <1>20, <1>21,
     <1>22, <1>23, <1>24, <1>25
     DEF Next, Start, Stream, Settle, Called, Conclude, Environment

LEMMA PositionStep ==
    ASSUME TypeOK, Position, [Next]_vars
    PROVE  Position'
<1> USE DEF TypeOK, Goto, Shows, WriteSucceeds, WriteFails, End, Return,
            round, history, Position, PositionOf
<1>1. ASSUME NEW s \in Session, NewPromptSession(s) PROVE Position'
  <2>1. pc' = [pc EXCEPT ![s] = "admit"] \/ pc' = [pc EXCEPT ![s] = "restore"]
    BY <1>1 DEF NewPromptSession
  <2>2. /\ conn' = [conn EXCEPT ![s] = "open"]
        /\ seen' = [seen EXCEPT ![s] = "text"]
    BY <1>1 DEF NewPromptSession
  <2>3. PositionOf(s)'
    BY <2>1, <2>2
  <2>4. \A p \in Session \ {s} : PositionOf(p)'
    BY <2>1, <2>2
  <2> QED
    BY <2>3, <2>4 DEF Position
<1>2. ASSUME NEW s \in Session, RestoreThread(s) PROVE Position'
  BY <1>2 DEF RestoreThread
<1>3. ASSUME NEW s \in Session, RestoreFails(s) PROVE Position'
  BY <1>3 DEF RestoreFails
<1>4. ASSUME NEW s \in Session, Admit(s) PROVE Position'
  BY <1>4 DEF Admit
<1>5. ASSUME NEW s \in Session, Refuse(s) PROVE Position'
  <2>1. PICK last \in {"refused", "failed"} : End(s, last)
    BY <1>5 DEF Refuse
  <2> QED
    BY <1>5, <2>1 DEF Refuse
<1>6. ASSUME NEW s \in Session, Chunk(s) PROVE Position'
  BY <1>6 DEF Chunk
<1>7. ASSUME NEW s \in Session, ChunkFails(s) PROVE Position'
  BY <1>7 DEF ChunkFails
<1>8. ASSUME NEW s \in Session, StreamCall(s) PROVE Position'
  BY <1>8 DEF StreamCall
<1>9. ASSUME NEW s \in Session, StreamError(s) PROVE Position'
  BY <1>9 DEF StreamError
<1>10. ASSUME NEW s \in Session, EndStream(s) PROVE Position'
  BY <1>10 DEF EndStream
<1>11. ASSUME NEW s \in Session, Stop(s) PROVE Position'
  BY <1>11 DEF Stop
<1>12. ASSUME NEW s \in Session, Think(s) PROVE Position'
  BY <1>12 DEF Think
<1>13. ASSUME NEW s \in Session, ThinkFails(s) PROVE Position'
  BY <1>13 DEF ThinkFails
<1>14. ASSUME NEW s \in Session, CallFunction(s) PROVE Position'
  BY <1>14 DEF CallFunction, Respond
<1>15. ASSUME NEW s \in Session, CallAction(s) PROVE Position'
  BY <1>15 DEF CallAction, Respond
<1>16. ASSUME NEW s \in Session, ActionFails(s) PROVE Position'
  BY <1>16 DEF ActionFails, Respond
<1>17. ASSUME NEW s \in Session, FindNoLies(s) PROVE Position'
  BY <1>17 DEF FindNoLies
<1>18. ASSUME NEW s \in Session, FindLies(s) PROVE Position'
  <2>1. pc[s] = "verify" /\ pc' = [pc EXCEPT ![s] = "done"]
    BY <1>18 DEF FindLies
  <2>2. CASE conn[s] = "open"
    <3>1. seen' = [seen EXCEPT ![s] = "warned"] /\ conn' = conn
      BY <1>18, <2>2 DEF FindLies
    <3> QED
      BY <2>1, <2>2, <3>1
  <2>3. CASE conn[s] # "open"
    <3>1. /\ seen' = seen
          /\ conn' = conn \/ conn' = [conn EXCEPT ![s] = "broken"]
      BY <1>18, <2>3 DEF FindLies
    <3>2. CASE conn' = conn
      BY <2>1, <2>3, <3>1, <3>2
    <3>3. CASE conn' = [conn EXCEPT ![s] = "broken"]
      BY <2>1, <2>3, <3>1, <3>3
    <3> QED
      BY <3>1, <3>2, <3>3
  <2> QED
    BY <2>2, <2>3
<1>19. ASSUME NEW s \in Session, WriteDone(s) PROVE Position'
  <2>1. pc[s] = "done" /\ pc' = [pc EXCEPT ![s] = "store"]
    BY <1>19 DEF WriteDone
  <2>2. CASE conn[s] = "open"
    <3>1. seen' = [seen EXCEPT ![s] = "done"] /\ conn' = conn
      BY <1>19, <2>2 DEF WriteDone
    <3> QED
      BY <2>1, <2>2, <3>1
  <2>3. CASE conn[s] # "open"
    <3>1. /\ seen' = seen
          /\ conn' = conn \/ conn' = [conn EXCEPT ![s] = "broken"]
      BY <1>19, <2>3 DEF WriteDone
    <3>2. CASE conn' = conn
      BY <2>1, <2>3, <3>1, <3>2
    <3>3. CASE conn' = [conn EXCEPT ![s] = "broken"]
      BY <2>1, <2>3, <3>1, <3>3
    <3> QED
      BY <3>1, <3>2, <3>3
  <2> QED
    BY <2>2, <2>3
<1>20. ASSUME NEW s \in Session, StoreThread(s) PROVE Position'
  BY <1>20 DEF StoreThread
<1>21. ASSUME NEW s \in Session, WriteThreadId(s) PROVE Position'
  <2>1. pc[s] = "name" /\ pc' = [pc EXCEPT ![s] = "close"]
    BY <1>21 DEF WriteThreadId
  <2>2. CASE conn[s] = "open"
    <3>1. seen' = [seen EXCEPT ![s] = "named"] /\ conn' = conn
      BY <1>21, <2>2 DEF WriteThreadId
    <3> QED
      BY <2>1, <2>2, <3>1
  <2>3. CASE conn[s] # "open"
    <3>1. /\ seen' = seen
          /\ conn' = conn \/ conn' = [conn EXCEPT ![s] = "broken"]
      BY <1>21, <2>3 DEF WriteThreadId
    <3>2. CASE conn' = conn
      BY <2>1, <2>3, <3>1, <3>2
    <3>3. CASE conn' = [conn EXCEPT ![s] = "broken"]
      BY <2>1, <2>3, <3>1, <3>3
    <3> QED
      BY <3>1, <3>2, <3>3
  <2> QED
    BY <2>2, <2>3
<1>22. ASSUME NEW s \in Session, Close(s) PROVE Position'
  BY <1>22 DEF Close
<1>23. ASSUME NEW s \in Session, HangUp(s) PROVE Position'
  BY <1>23 DEF HangUp
<1>24. ASSUME NEW s \in Session, Expire(s) PROVE Position'
  BY <1>24 DEF Expire
<1>25. CASE UNCHANGED vars
  BY <1>25 DEF vars
<1> QED
  BY <1>1, <1>2, <1>3, <1>4, <1>5, <1>6, <1>7, <1>8, <1>9, <1>10, <1>11,
     <1>12, <1>13, <1>14, <1>15, <1>16, <1>17, <1>18, <1>19, <1>20, <1>21,
     <1>22, <1>23, <1>24, <1>25
     DEF Next, Start, Stream, Settle, Called, Conclude, Environment

\* Where an answer may go from where it is.
LEMMA SuccessorsAre ==
    /\ Answer!Successors("none") = {"text"}
    /\ Answer!Successors("text") = {"warned", "done", "refused", "failed", "cut"}
    /\ Answer!Successors("warned") = {"done", "cut"}
    /\ Answer!Successors("done") = {"named", "cut"}
    /\ Answer!Successors("named") = {"normal", "cut"}
BY DEF Answer!Successors

\* Every step is a step of the answer of one session, or none of any.
LEMMA AnswerStep ==
    ASSUME TypeOK, Position, [Next]_vars
    PROVE  [Answer!Next]_seen
<1> USE DEF TypeOK, Position, PositionOf, Goto, Shows, WriteSucceeds, WriteFails, End,
            Return, round, history
<1> DEFINE Goes(s) == \/ seen' = seen
                      \/ \E last \in Answer!Successors(seen[s]) :
                            seen' = [seen EXCEPT ![s] = last]
<1>1. ASSUME NEW s \in Session, NewPromptSession(s) PROVE Goes(s)
  BY <1>1, SuccessorsAre DEF NewPromptSession
<1>2. ASSUME NEW s \in Session, RestoreFails(s) PROVE Goes(s)
  BY <1>2, SuccessorsAre DEF RestoreFails
<1>3. ASSUME NEW s \in Session, Refuse(s) PROVE Goes(s)
  <2>1. PICK last \in {"refused", "failed"} : End(s, last)
    BY <1>3 DEF Refuse
  <2> QED
    BY <1>3, <2>1, SuccessorsAre DEF Refuse
<1>4. ASSUME NEW s \in Session, StreamError(s) PROVE Goes(s)
  BY <1>4, SuccessorsAre DEF StreamError
<1>5. ASSUME NEW s \in Session, ActionFails(s) PROVE Goes(s)
  BY <1>5, SuccessorsAre DEF ActionFails, Respond
<1>6. ASSUME NEW s \in Session, FindLies(s) PROVE Goes(s)
  BY <1>6, SuccessorsAre DEF FindLies
<1>7. ASSUME NEW s \in Session, WriteDone(s) PROVE Goes(s)
  BY <1>7, SuccessorsAre DEF WriteDone
<1>8. ASSUME NEW s \in Session, WriteThreadId(s) PROVE Goes(s)
  BY <1>8, SuccessorsAre DEF WriteThreadId
<1>9. ASSUME NEW s \in Session, Close(s) PROVE Goes(s)
  BY <1>9, SuccessorsAre DEF Close
<1>10. ASSUME NEW s \in Session, HangUp(s) PROVE Goes(s)
  BY <1>10, SuccessorsAre DEF HangUp
<1>11. ASSUME seen' = seen, NEW s \in Session PROVE Goes(s)
  BY <1>11
<1> HIDE DEF Goes, TypeOK, Position, PositionOf
<1>12. ASSUME NEW s \in Session, Start(s) PROVE Goes(s)
  BY <1>1, <1>2, <1>3, <1>11, <1>12 DEF Start, RestoreThread, Admit
<1>13. ASSUME NEW s \in Session, Stream(s) PROVE Goes(s)
  BY <1>4, <1>11, <1>13 DEF Stream, Chunk, ChunkFails, StreamCall, EndStream
<1>14. ASSUME NEW s \in Session, Settle(s) PROVE Goes(s)
  BY <1>11, <1>14 DEF Settle, Stop, Think, ThinkFails
<1>15. ASSUME NEW s \in Session, Called(s) PROVE Goes(s)
  BY <1>5, <1>11, <1>15 DEF Called, CallFunction, CallAction
<1>16. ASSUME NEW s \in Session, Conclude(s) PROVE Goes(s)
  BY <1>6, <1>7, <1>8, <1>9, <1>11, <1>16
     DEF Conclude, FindNoLies, StoreThread
<1>17. ASSUME NEW s \in Session, Environment(s) PROVE Goes(s)
  BY <1>10, <1>11, <1>17 DEF Environment, Expire
<1>18. CASE UNCHANGED vars
  BY <1>18 DEF vars
<1>19. CASE Next
  <2>1. PICK s \in Session : Goes(s)
    BY <1>12, <1>13, <1>14, <1>15, <1>16, <1>17, <1>19 DEF Next
  <2> QED
    BY <2>1 DEF Goes, Answer!Next
<1> QED
  BY <1>18, <1>19

-----------------------------------------------------------------------------
(* The threads.                                                            *)

\* A session that has come to store its thread never leaves from there.
LEMMA StoredStays ==
    ASSUME TypeOK, [Next]_vars
    PROVE  \A o \in Session : pc[o] \in Stored => pc'[o] \in Stored
<1> USE DEF TypeOK, Goto, End, Return, Stored
<1> DEFINE Stays == \A o \in Session : pc[o] \in Stored => pc'[o] \in Stored
<1>1. ASSUME NEW s \in Session, NEW where, pc' = [pc EXCEPT ![s] = where],
             pc[s] \notin Stored \/ where \in Stored
      PROVE  Stays
  BY <1>1
<1>2. ASSUME pc' = pc PROVE Stays
  BY <1>2
<1> HIDE DEF Stays
<1>3. ASSUME NEW s \in Session, Start(s) PROVE Stays
  BY <1>1, <1>3
     DEF Start, NewPromptSession, RestoreThread, RestoreFails, Admit, Refuse
<1>4. ASSUME NEW s \in Session, Stream(s) PROVE Stays
  BY <1>1, <1>2, <1>4
     DEF Stream, Chunk, ChunkFails, StreamCall, StreamError, EndStream
<1>5. ASSUME NEW s \in Session, Settle(s) PROVE Stays
  BY <1>1, <1>5 DEF Settle, Stop, Think, ThinkFails
<1>6. ASSUME NEW s \in Session, Called(s) PROVE Stays
  BY <1>1, <1>6 DEF Called, CallFunction, CallAction, ActionFails, Respond
<1>7. ASSUME NEW s \in Session, Conclude(s) PROVE Stays
  BY <1>1, <1>7
     DEF Conclude, FindNoLies, FindLies, WriteDone, StoreThread, WriteThreadId,
         Close
<1>8. ASSUME NEW s \in Session, Environment(s) PROVE Stays
  BY <1>2, <1>8 DEF Environment, HangUp, Expire
<1>9. ASSUME UNCHANGED vars PROVE Stays
  BY <1>2, <1>9 DEF vars
<1>10. Stays
  BY <1>3, <1>4, <1>5, <1>6, <1>7, <1>8, <1>9 DEF Next
<1> QED
  BY <1>10 DEF Stays

LEMMA ContinuedStep ==
    ASSUME TypeOK, Continued, [Next]_vars
    PROVE  Continued'
<1> USE DEF TypeOK, End, Return, round, history
<1>1. ASSUME NEW s \in Session, NewPromptSession(s) PROVE Continued'
  BY <1>1 DEF NewPromptSession, Continued
<1>2. ASSUME orig' = orig, knows \subseteq knows' PROVE Continued'
  BY <1>2 DEF Continued
<1> HIDE DEF TypeOK
<1>3. ASSUME NEW s \in Session, Start(s) PROVE Continued'
  BY <1>1, <1>2, <1>3 DEF Start, RestoreThread, RestoreFails, Admit, Refuse
<1>4. ASSUME NEW s \in Session, Stream(s) PROVE Continued'
  BY <1>2, <1>4
     DEF Stream, Chunk, ChunkFails, StreamCall, StreamError, EndStream
<1>5. ASSUME NEW s \in Session, Settle(s) PROVE Continued'
  BY <1>2, <1>5 DEF Settle, Stop, Think, ThinkFails
<1>6. ASSUME NEW s \in Session, Called(s) PROVE Continued'
  BY <1>2, <1>6 DEF Called, CallFunction, CallAction, ActionFails, Respond
<1>7. ASSUME NEW s \in Session, Conclude(s) PROVE Continued'
  BY <1>2, <1>7
     DEF Conclude, FindNoLies, FindLies, WriteDone, StoreThread, WriteThreadId,
         Close
<1>8. ASSUME NEW s \in Session, Environment(s) PROVE Continued'
  BY <1>2, <1>8 DEF Environment, HangUp, Expire
<1>9. CASE UNCHANGED vars
  BY <1>2, <1>9 DEF vars
<1> QED
  BY <1>3, <1>4, <1>5, <1>6, <1>7, <1>8, <1>9 DEF Next

LEMMA KnownStep ==
    ASSUME TypeOK, \A s \in Session : Known(s), [Next]_vars
    PROVE  (\A s \in Session : Known(s))'
<1> DEFINE Holds == \A p \in Session : Known(p)
<1> USE DEF TypeOK, Goto, Shows, WriteSucceeds, WriteFails, End, Return,
            round, history, Known, Stored
<1>1. ASSUME NEW s \in Session, NewPromptSession(s) PROVE Holds'
  <2>1. PICK o \in knows \union {NoThread} :
          /\ orig' = [orig EXCEPT ![s] = o]
          /\ Goto(s, IF o = NoThread THEN "admit" ELSE "restore")
    BY <1>1 DEF NewPromptSession
  <2>2. pc' = [pc EXCEPT ![s] = "admit"] \/ pc' = [pc EXCEPT ![s] = "restore"]
    BY <2>1
  <2>3. /\ conn' = [conn EXCEPT ![s] = "open"]
        /\ UNCHANGED <<store, knows, missed, unstored>>
        /\ pc[s] = "idle"
    BY <1>1 DEF NewPromptSession
  <2>4. Known(s)'
    BY <2>1, <2>2, <2>3
  <2>5. \A p \in Session \ {s} : Known(p)'
    BY <2>1, <2>2, <2>3
  <2> QED
    BY <2>4, <2>5
<1>2. ASSUME NEW s \in Session, RestoreThread(s) PROVE Holds'
  BY <1>2 DEF RestoreThread
<1>3. ASSUME NEW s \in Session, Return(s), pc[s] # "name",
             conn' = conn \/ conn' = [conn EXCEPT ![s] = "broken"],
             UNCHANGED <<orig, store, knows, missed, unstored>>
      PROVE  Holds'
  BY <1>3
<1>4. ASSUME NEW s \in Session, Admit(s) PROVE Holds'
  BY <1>4 DEF Admit
<1>6. ASSUME NEW s \in Session, Chunk(s) PROVE Holds'
  BY <1>6 DEF Chunk
<1>7. ASSUME NEW s \in Session, ChunkFails(s) PROVE Holds'
  BY <1>7 DEF ChunkFails
<1>8. ASSUME NEW s \in Session, StreamCall(s) PROVE Holds'
  BY <1>8 DEF StreamCall
<1>10. ASSUME NEW s \in Session, EndStream(s) PROVE Holds'
  BY <1>10 DEF EndStream
<1>11. ASSUME NEW s \in Session, Stop(s) PROVE Holds'
  BY <1>11 DEF Stop
<1>12. ASSUME NEW s \in Session, Think(s) PROVE Holds'
  BY <1>12 DEF Think
<1>14. ASSUME NEW s \in Session, CallFunction(s) PROVE Holds'
  BY <1>14 DEF CallFunction, Respond
<1>15. ASSUME NEW s \in Session, CallAction(s) PROVE Holds'
  BY <1>15 DEF CallAction, Respond
<1>16. ASSUME NEW s \in Session, ActionFails(s) PROVE Holds'
  BY <1>16 DEF ActionFails, Respond
<1>17. ASSUME NEW s \in Session, FindNoLies(s) PROVE Holds'
  BY <1>17 DEF FindNoLies
<1>18. ASSUME NEW s \in Session, FindLies(s) PROVE Holds'
  <2>1. conn' = conn \/ conn' = [conn EXCEPT ![s] = "broken"]
    BY <1>18 DEF FindLies
  <2> QED
    BY <1>18, <2>1 DEF FindLies
<1>19. ASSUME NEW s \in Session, WriteDone(s) PROVE Holds'
  <2>1. conn' = conn \/ conn' = [conn EXCEPT ![s] = "broken"]
    BY <1>19 DEF WriteDone
  <2> QED
    BY <1>19, <2>1 DEF WriteDone
<1>20. ASSUME NEW s \in Session, StoreThread(s) PROVE Holds'
  <2>1. messages[s] # NoThread
    <3>1. messages[s] \in Seq(Message)
      OBVIOUS
    <3> QED
      BY ONLY <3>1, Constants
  <2>2. \/ store' = [store EXCEPT ![s] = messages[s]] /\ unstored' = unstored
        \/ store' = store /\ unstored' = unstored \union {s}
    BY <1>20 DEF StoreThread
  <2>3. /\ pc[s] = "store"
        /\ pc' = [pc EXCEPT ![s] = "name"]
        /\ UNCHANGED <<conn, knows, missed>>
    BY <1>20 DEF StoreThread
  <2>4. Known(s)'
    BY <2>1, <2>2, <2>3
  <2>5. \A p \in Session \ {s} : Known(p)'
    BY <2>1, <2>2, <2>3
  <2> QED
    BY <2>4, <2>5
<1>21. ASSUME NEW s \in Session, WriteThreadId(s) PROVE Holds'
  <2>1. \/ conn[s] = "open" /\ conn' = conn /\ knows' = knows \union {s}
        \/ conn' = conn /\ knows' = knows
        \/ conn' = [conn EXCEPT ![s] = "broken"] /\ knows' = knows
    BY <1>21 DEF WriteThreadId
  <2>2. /\ pc[s] = "name"
        /\ pc' = [pc EXCEPT ![s] = "close"]
        /\ UNCHANGED <<store, missed, unstored>>
    BY <1>21 DEF WriteThreadId
  <2>3. Known(s)'
    BY <2>1, <2>2
  <2>4. \A p \in Session \ {s} : Known(p)'
    BY <2>1, <2>2
  <2> QED
    BY <2>3, <2>4
<1>23. ASSUME NEW s \in Session, HangUp(s) PROVE Holds'
  BY <1>23 DEF HangUp
<1>24. ASSUME NEW s \in Session, Expire(s) PROVE Holds'
  BY <1>24 DEF Expire
<1>25. CASE UNCHANGED vars
  BY <1>25 DEF vars
<1>26. ASSUME NEW s \in Session,
              \/ RestoreFails(s)
              \/ Refuse(s)
              \/ StreamError(s)
              \/ ThinkFails(s)
              \/ Close(s)
       PROVE  Holds'
  <2>1. Return(s) /\ pc[s] # "name"
    BY <1>26 DEF RestoreFails, Refuse, StreamError, ThinkFails, Close
  <2>2. /\ conn' = conn \/ conn' = [conn EXCEPT ![s] = "broken"]
        /\ UNCHANGED <<orig, store, knows, missed, unstored>>
    BY <1>26 DEF RestoreFails, Refuse, StreamError, ThinkFails, Close
  <2> HIDE DEF Return, Holds
  <2> QED
    BY <1>3, <2>1, <2>2
<1> HIDE DEF Known
<1> QED
  BY <1>1, <1>2, <1>4, <1>6, <1>7, <1>8, <1>10, <1>11, <1>12,
     <1>14, <1>15, <1>16, <1>17, <1>18, <1>19, <1>20, <1>21, <1>23, <1>24,
     <1>25, <1>26
     DEF Next, Start, Stream, Settle, Called, Conclude, Environment

-----------------------------------------------------------------------------
(* What a step does to the thread of one session.                          *)

Stays(s) == pc'[s] = pc[s] /\ messages'[s] = messages[s] /\ call'[s] = call[s]

Opens(s) ==
    /\ pc[s] = "idle"
    /\ messages'[s] = <<Said(s, "user")>>
    /\ \/ orig'[s] = NoThread /\ pc'[s] = "admit"
       \/ orig'[s] # NoThread /\ pc'[s] = "restore"

Restores(s) ==
    /\ pc[s] = "restore"
    /\ pc'[s] = "admit"
    /\ store[orig[s]] # NoThread
    /\ messages'[s] = store[orig[s]] \o messages[s]

Ends(s) == pc'[s] = "ended" /\ messages'[s] = <<>>

GoesOn(s) ==
    /\ \/ pc[s] \in Running /\ pc'[s] \in Running
       \/ pc[s] = "store" /\ pc'[s] = "name"
       \/ pc[s] = "name" /\ pc'[s] = "close"
    /\ messages'[s] = messages[s]

Speaks(s) ==
    /\ pc[s] = "settle"
    /\ pc'[s] = "verify"
    /\ messages'[s] = messages[s] \o Spoken(s)

CallsOut(s) ==
    /\ pc[s] = "settle"
    /\ pc'[s] = "call"
    /\ call[s] # ""
    /\ call'[s] = call[s]
    /\ messages'[s] = (messages[s] \o Spoken(s)) \o <<Said(s, call[s])>>

IsAnswered(s) ==
    /\ pc[s] = "call"
    /\ pc'[s] = "stream"
    /\ \E response \in Responses :
          messages'[s] = Append(messages[s], Said(s, response))

Moves(s) ==
    \/ Stays(s) \/ Opens(s) \/ Restores(s) \/ Ends(s) \/ GoesOn(s)
    \/ Speaks(s) \/ CallsOut(s) \/ IsAnswered(s)

LEMMA MovesStep ==
    ASSUME TypeOK, [Next]_vars
    PROVE  \A p \in Session : Moves(p)
<1> DEFINE Move == \A p \in Session : Moves(p)
<1> USE DEF TypeOK, Goto, End, Return, round, history, Running
<1>1. ASSUME NEW s \in Session, Moves(s),
             \A p \in Session \ {s} : /\ pc'[p] = pc[p]
                                      /\ messages'[p] = messages[p]
                                      /\ call'[p] = call[p]
      PROVE  Move
  <2>1. \A p \in Session \ {s} : Stays(p)
    BY <1>1 DEF Stays
  <2> QED
    BY <1>1, <2>1 DEF Moves
<1>2. ASSUME NEW s \in Session, NewPromptSession(s) PROVE Move
  <2>1. PICK o \in knows \union {NoThread} :
          /\ orig' = [orig EXCEPT ![s] = o]
          /\ Goto(s, IF o = NoThread THEN "admit" ELSE "restore")
    BY <1>2 DEF NewPromptSession
  <2>2. Opens(s)
    BY <1>2, <2>1 DEF NewPromptSession, Opens
  <2>3. Moves(s)
    BY <2>2 DEF Moves
  <2>4. \A p \in Session \ {s} : /\ pc'[p] = pc[p]
                                 /\ messages'[p] = messages[p]
                                 /\ call'[p] = call[p]
    BY <1>2, <2>1 DEF NewPromptSession
  <2> HIDE DEF Move
  <2> QED
    BY <1>1, <2>3, <2>4
<1>3. ASSUME NEW s \in Session, RestoreThread(s) PROVE Move
  <2>1. Restores(s)
    BY <1>3 DEF RestoreThread, Restores
  <2>2. Moves(s)
    BY <2>1 DEF Moves
  <2> HIDE DEF Move
  <2> QED
    BY <1>1, <1>3, <2>2 DEF RestoreThread
<1>4. ASSUME NEW s \in Session, Return(s) PROVE Move
  <2>1. Ends(s)
    BY <1>4 DEF Ends
  <2>2. Moves(s)
    BY <2>1 DEF Moves
  <2> HIDE DEF Move
  <2> QED
    BY <1>1, <1>4, <2>2
<1>5. ASSUME NEW s \in Session, NEW where, pc' = [pc EXCEPT ![s] = where],
             \/ pc[s] \in Running /\ where \in Running
             \/ pc[s] = "store" /\ where = "name"
             \/ pc[s] = "name" /\ where = "close",
             UNCHANGED <<messages, call>>
      PROVE  Move
  <2>1. GoesOn(s)
    BY <1>5 DEF GoesOn
  <2>2. Moves(s)
    BY <2>1 DEF Moves
  <2> HIDE DEF Move
  <2> QED
    BY <1>1, <1>5, <2>2
<1>6. ASSUME UNCHANGED <<pc, messages, call>> PROVE Move
  BY <1>6 DEF Moves, Stays
<1>7. ASSUME NEW s \in Session, StreamCall(s) PROVE Move
  <2>1. PICK f \in Calls : call' = [call EXCEPT ![s] = f]
    BY <1>7 DEF StreamCall
  <2>2. GoesOn(s)
    BY <1>7 DEF StreamCall, GoesOn
  <2>3. Moves(s)
    BY <2>2 DEF Moves
  <2> HIDE DEF Move
  <2> QED
    BY <1>1, <1>7, <2>1, <2>3 DEF StreamCall
<1>8. ASSUME NEW s \in Session, Stop(s) PROVE Move
  <2>1. Speaks(s)
    BY <1>8 DEF Stop, Speaks
  <2>2. Moves(s)
    BY <2>1 DEF Moves
  <2> HIDE DEF Move
  <2> QED
    BY <1>1, <1>8, <2>2 DEF Stop
<1>9. ASSUME NEW s \in Session, Think(s) PROVE Move
  <2>1. CallsOut(s)
    BY <1>9 DEF Think, CallsOut
  <2>2. Moves(s)
    BY <2>1 DEF Moves
  <2> HIDE DEF Move
  <2> QED
    BY <1>1, <1>9, <2>2 DEF Think
<1>10. ASSUME NEW s \in Session, NEW response \in Responses, Respond(s, response)
       PROVE  Move
  <2>1. IsAnswered(s)
    BY <1>10 DEF Respond, IsAnswered
  <2>2. Moves(s)
    BY <2>1 DEF Moves
  <2> HIDE DEF Move
  <2> QED
    BY <1>1, <1>10, <2>2 DEF Respond
<1> HIDE DEF Move, TypeOK, Goto, Return
<1> USE DEF Goto
<1>11. ASSUME NEW s \in Session, Start(s) PROVE Move
  BY <1>2, <1>3, <1>4, <1>5, <1>11 DEF Start, RestoreFails, Admit, Refuse
<1>12. ASSUME NEW s \in Session, Stream(s) PROVE Move
  BY <1>4, <1>5, <1>6, <1>7, <1>12
     DEF Stream, Chunk, ChunkFails, StreamError, EndStream
<1>13. ASSUME NEW s \in Session, Settle(s) PROVE Move
  BY <1>4, <1>8, <1>9, <1>13 DEF Settle, ThinkFails
<1>14. ASSUME NEW s \in Session, Called(s) PROVE Move
  BY <1>10, <1>14 DEF Called, CallFunction, CallAction, ActionFails, Responses
<1>15. ASSUME NEW s \in Session, Conclude(s) PROVE Move
  BY <1>4, <1>5, <1>15
     DEF Conclude, FindNoLies, FindLies, WriteDone, StoreThread, WriteThreadId,
         Close
<1>16. ASSUME NEW s \in Session, Environment(s) PROVE Move
  BY <1>6, <1>16 DEF Environment, HangUp, Expire
<1>17. ASSUME UNCHANGED vars PROVE Move
  BY <1>6, <1>17 DEF vars
<1>18. Move
  BY <1>11, <1>12, <1>13, <1>14, <1>15, <1>16, <1>17 DEF Next
<1> QED
  BY <1>18 DEF Move

\* A thread is stored by its session, and later only lost.
LEMMA StoreStep ==
    ASSUME TypeOK, [Next]_vars, NEW p \in Session
    PROVE  \/ store'[p] = store[p]
           \/ store'[p] = NoThread
           \/ pc[p] = "store" /\ pc'[p] = "name" /\ store'[p] = messages[p]
<1> DEFINE Moved == \/ store'[p] = store[p]
                    \/ store'[p] = NoThread
                    \/ pc[p] = "store" /\ pc'[p] = "name" /\ store'[p] = messages[p]
<1>1. ASSUME NEW s \in Session, StoreThread(s) PROVE Moved
  <2>1. store' = store \/ store' = [store EXCEPT ![s] = messages[s]]
    BY <1>1 DEF StoreThread
  <2>2. pc[s] = "store" /\ pc' = [pc EXCEPT ![s] = "name"]
    BY <1>1 DEF StoreThread, Goto
  <2>3. CASE p = s
    <3>1. pc'[p] = "name" /\ pc[p] = "store"
      BY <2>2, <2>3 DEF TypeOK
    <3>2. store'[p] = store[p] \/ store'[p] = messages[p]
      BY <2>1, <2>3 DEF TypeOK
    <3> QED
      BY <3>1, <3>2
  <2>4. CASE p # s
    BY <2>1, <2>4 DEF TypeOK
  <2> QED
    BY <2>3, <2>4
<1>2. ASSUME NEW s \in Session, Expire(s) PROVE Moved
  BY <1>2 DEF Expire, TypeOK
<1>3. ASSUME store' = store PROVE Moved
  BY <1>3
<1> HIDE DEF Moved
<1>4. ASSUME NEW s \in Session, Start(s) PROVE Moved
  BY <1>3, <1>4
     DEF Start, NewPromptSession, RestoreThread, RestoreFails, Admit, Refuse
<1>5. ASSUME NEW s \in Session, Stream(s) PROVE Moved
  BY <1>3, <1>5
     DEF Stream, Chunk, ChunkFails, StreamCall, StreamError, EndStream
<1>6. ASSUME NEW s \in Session, Settle(s) PROVE Moved
  BY <1>3, <1>6 DEF Settle, Stop, Think, ThinkFails
<1>7. ASSUME NEW s \in Session, Called(s) PROVE Moved
  BY <1>3, <1>7 DEF Called, CallFunction, CallAction, ActionFails, Respond
<1>8. ASSUME NEW s \in Session, Conclude(s) PROVE Moved
  BY <1>1, <1>3, <1>8
     DEF Conclude, FindNoLies, FindLies, WriteDone, WriteThreadId, Close
<1>9. ASSUME NEW s \in Session, Environment(s) PROVE Moved
  BY <1>2, <1>3, <1>9 DEF Environment, HangUp
<1>10. ASSUME UNCHANGED vars PROVE Moved
  BY <1>3, <1>10 DEF vars
<1>11. Moved
  BY <1>4, <1>5, <1>6, <1>7, <1>8, <1>9, <1>10 DEF Next
<1> QED
  BY <1>11 DEF Moved

\* A session continues one thread from its start to its end.
LEMMA OrigStep ==
    ASSUME TypeOK, [Next]_vars, NEW p \in Session, pc[p] # "idle"
    PROVE  orig'[p] = orig[p]
<1>1. ASSUME NEW s \in Session, NewPromptSession(s) PROVE orig'[p] = orig[p]
  BY <1>1 DEF NewPromptSession, TypeOK
<1>2. ASSUME NEW s \in Session, Start(s) PROVE orig'[p] = orig[p]
  BY <1>1, <1>2 DEF Start, RestoreThread, RestoreFails, Admit, Refuse
<1>3. ASSUME NEW s \in Session, Stream(s) PROVE orig'[p] = orig[p]
  BY <1>3 DEF Stream, Chunk, ChunkFails, StreamCall, StreamError, EndStream
<1>4. ASSUME NEW s \in Session, Settle(s) PROVE orig'[p] = orig[p]
  BY <1>4 DEF Settle, Stop, Think, ThinkFails
<1>5. ASSUME NEW s \in Session, Called(s) PROVE orig'[p] = orig[p]
  BY <1>5 DEF Called, CallFunction, CallAction, ActionFails, Respond
<1>6. ASSUME NEW s \in Session, Conclude(s) PROVE orig'[p] = orig[p]
  BY <1>6
     DEF Conclude, FindNoLies, FindLies, WriteDone, StoreThread, WriteThreadId,
         Close
<1>7. ASSUME NEW s \in Session, Environment(s) PROVE orig'[p] = orig[p]
  BY <1>7 DEF Environment, HangUp, Expire
<1>8. CASE UNCHANGED vars
  BY <1>8 DEF vars
<1> QED
  BY <1>2, <1>3, <1>4, <1>5, <1>6, <1>7, <1>8 DEF Next

\* The thread that a session goes on with is lost at most, and never another.
LEMMA OriginStep ==
    ASSUME TypeOK, Continued, \A s \in Session : Known(s), [Next]_vars,
           NEW p \in Session, pc[p] # "idle"
    PROVE  /\ orig'[p] = orig[p]
           /\ Origin(p)' = Origin(p) \/ Origin(p)' = NoThread
<1>1. orig'[p] = orig[p]
  BY OrigStep
<1>2. CASE orig[p] = NoThread
  BY <1>1, <1>2 DEF Origin
<1>3. CASE orig[p] # NoThread
  <2>1. orig[p] \in Session /\ orig[p] \in knows
    BY <1>3 DEF TypeOK, Continued
  <2>2. pc[orig[p]] # "store"
    BY <2>1 DEF Known
  <2>3. store'[orig[p]] = store[orig[p]] \/ store'[orig[p]] = NoThread
    BY <2>1, <2>2, StoreStep
  <2> QED
    BY <1>1, <1>3, <2>3 DEF Origin
<1> QED
  BY <1>2, <1>3

-----------------------------------------------------------------------------
(* Threads as sequences of messages.                                       *)

\* A thread goes on with a message, whichever way it is put.
LEMMA OneMore ==
    ASSUME NEW t \in Seq(Message), NEW m \in Message
    PROVE  /\ t \o <<m>> = Append(t, m)
           /\ Append(t, m) \in Seq(Message)
           /\ Len(Append(t, m)) = Len(t) + 1
           /\ \A i \in 1..Len(t) : Append(t, m)[i] = t[i]
           /\ Append(t, m)[Len(t) + 1] = m
BY AppendProperties, AppendIsConcat

LEMMA AuthorType ==
    ASSUME NEW t \in Seq(Message), NEW i \in 1..Len(t)
    PROVE  t[i].of \in Session /\ t[i].kind \in Kinds
<1>1. t[i] \in Message
  BY ElementOfSeq
<1> QED
  BY ONLY <1>1 DEF Message

LEMMA BeginsRestored ==
    ASSUME NEW s \in Session, NEW u \in Seq(Message),
           \A i \in 1..Len(u) : u[i] # Said(s, "user")
    PROVE  Begins(s, u, u \o <<Said(s, "user")>>)
<1>1. Said(s, "user") \in Message
  BY SaidType DEF Kinds
<1> DEFINE m == Said(s, "user")
           t == Append(u, m)
<1> HIDE DEF m
<1>2. u \o <<m>> = t /\ Len(t) = Len(u) + 1
  BY <1>1, OneMore DEF m
<1>3. (\A i \in 1..Len(u) : t[i] = u[i]) /\ t[Len(u) + 1] = m
  BY <1>1, OneMore DEF m
<1>4. Len(u) \in Nat
  OBVIOUS
<1> HIDE DEF t
<1>5. \A i \in 1..Len(t) : t[i] = m <=> i = Len(u) + 1
  BY <1>2, <1>3, <1>4 DEF m
<1>6. Begins(s, u, t)
  BY <1>2, <1>3, <1>4, <1>5 DEF Begins, m
<1> QED
  BY <1>2, <1>6 DEF m

LEMMA BeginsOn ==
    ASSUME NEW s \in Session, NEW u \in Seq(Message) \union {NoThread},
           NEW t \in Seq(Message), Begins(s, u, t),
           NEW m \in Message, m # Said(s, "user")
    PROVE  Begins(s, u, Append(t, m))
<1> DEFINE v == Append(t, m)
<1>1. /\ Len(v) = Len(t) + 1
      /\ \A i \in 1..Len(t) : v[i] = t[i]
      /\ v[Len(t) + 1] = m
      /\ Len(t) \in Nat
  BY OneMore
<1> HIDE DEF v
<1>2. ASSUME u # NoThread
      PROVE  /\ Len(u) < Len(v)
             /\ \A i \in 1..Len(u) : v[i] = u[i]
             /\ v[Len(u) + 1] = Said(s, "user")
  BY <1>1, <1>2 DEF Begins
<1>3. PICK k \in 1..Len(t) : \A i \in 1..Len(t) : t[i] = Said(s, "user") <=> i = k
  BY DEF Begins
<1>4. k \in 1..Len(v) /\ \A i \in 1..Len(v) : v[i] = Said(s, "user") <=> i = k
  BY <1>1, <1>3
<1> QED
  BY <1>2, <1>4 DEF Begins, v

\* A message that is no call, nor a response, leaves a thread whole.
LEMMA AnsweredOn ==
    ASSUME NEW t \in Seq(Message), Answered(t, Len(t)),
           NEW m \in Message, m.kind \notin Calls \union Responses
    PROVE  Answered(Append(t, m), Len(Append(t, m)))
<1> DEFINE v == Append(t, m)
<1>1. /\ Len(v) = Len(t) + 1
      /\ \A i \in 1..Len(t) : v[i] = t[i]
      /\ v[Len(t) + 1] = m
      /\ Len(t) \in Nat
  BY OneMore
<1> HIDE DEF v
<1>2. Answered(v, Len(v))
  BY <1>1 DEF Answered
<1> QED
  BY <1>2 DEF v

\* A call is yet to be answered.
LEMMA AnsweredBut ==
    ASSUME NEW t \in Seq(Message), Answered(t, Len(t)),
           NEW m \in Message, m.kind \in Calls
    PROVE  Answered(Append(t, m), Len(Append(t, m)) - 1)
<1> DEFINE v == Append(t, m)
<1>1. /\ Len(v) = Len(t) + 1
      /\ \A i \in 1..Len(t) : v[i] = t[i]
      /\ v[Len(t) + 1] = m
      /\ Len(t) \in Nat
  BY OneMore
<1>2. m.kind \notin Responses
  BY DEF Calls, Responses
<1> HIDE DEF v
<1>3. Len(v) - 1 = Len(t)
  BY <1>1
<1>4. Answered(v, Len(t))
  BY <1>1, <1>2 DEF Answered
<1> QED
  BY <1>3, <1>4 DEF v

\* Its response makes the thread whole.
LEMMA AnsweredNow ==
    ASSUME NEW t \in Seq(Message), Len(t) > 0, Answered(t, Len(t) - 1),
           t[Len(t)].kind \in Calls,
           NEW m \in Message, m.kind \in Responses, m.of = t[Len(t)].of
    PROVE  Answered(Append(t, m), Len(Append(t, m)))
<1> DEFINE v == Append(t, m)
<1>1. /\ Len(v) = Len(t) + 1
      /\ \A i \in 1..Len(t) : v[i] = t[i]
      /\ v[Len(t) + 1] = m
      /\ Len(t) \in Nat
  BY OneMore
<1>2. m.kind \notin Calls /\ t[Len(t)].kind \notin Responses
  BY DEF Calls, Responses
<1> HIDE DEF v
<1>3. \A i \in 1..Len(t) - 1 :
        v[i].kind \in Calls <=>
           i < Len(v) /\ v[i + 1].kind \in Responses /\ v[i + 1].of = v[i].of
  BY <1>1, <1>2 DEF Answered
<1>4. v[Len(t)] = t[Len(t)]
  BY <1>1
<1>5. Answered(v, Len(v))
  BY <1>1, <1>2, <1>3, <1>4 DEF Answered
<1> QED
  BY <1>5 DEF v


-----------------------------------------------------------------------------
(* The invariants of the threads.                                          *)

LEMMA OriginType ==
    ASSUME TypeOK, NEW s \in Session
    PROVE  Origin(s) \in Seq(Message) \union {NoThread}
<1>1. orig[s] # NoThread => orig[s] \in Session
  BY DEF TypeOK
<1>2. <<>> \in Seq(Message)
  BY EmptySeq
<1> QED
  BY <1>1, <1>2 DEF Origin, TypeOK

\* What begins as it should does so when the thread it continues is lost.
LEMMA BeginsStill ==
    ASSUME NEW s, NEW u, NEW w, NEW t, Begins(s, u, t), w = u \/ w = NoThread
    PROVE  Begins(s, w, t)
BY DEF Begins

\* The thread that is restored is put before the prompt.
LEMMA RestoredThread ==
    ASSUME TypeOK, Restoring, NEW s \in Session, Restores(s), Whole(s)
    PROVE  /\ orig[s] \in Session
           /\ Origin(s) = store[orig[s]]
           /\ store[orig[s]] \in Seq(Message)
           /\ store[orig[s]] # NoThread
           /\ messages'[s] = Append(store[orig[s]], Said(s, "user"))
<1>1. orig[s] \in Session /\ orig[s] # NoThread
  BY DEF TypeOK, Restoring, Restores
<1>2. store[orig[s]] \in Seq(Message) /\ store[orig[s]] # NoThread
  BY <1>1 DEF TypeOK, Restores
<1>3. Said(s, "user") \in Message
  BY SaidType DEF Kinds
<1>4. messages'[s] = store[orig[s]] \o <<Said(s, "user")>>
  BY DEF Restores, Whole
<1>5. messages'[s] = Append(store[orig[s]], Said(s, "user"))
  BY <1>2, <1>3, <1>4, OneMore
<1> QED
  BY <1>1, <1>2, <1>5 DEF Origin

\* What is said is put behind the thread, if anything is.
LEMMA SpokenThread ==
    ASSUME TypeOK, NEW s \in Session
    PROVE  LET t == messages[s] \o Spoken(s)
           IN  \/ t = messages[s]
               \/ content[s] \in Texts /\ t = Append(messages[s], Said(s, content[s]))
<1>1. messages[s] \in Seq(Message)
  BY DEF TypeOK
<1>2. CASE content[s] = ""
  BY <1>1, <1>2, ConcatEmptySeq DEF Spoken
<1>3. CASE content[s] # ""
  <2>1. content[s] \in Texts
    BY <1>3 DEF TypeOK
  <2>2. Said(s, content[s]) \in Message
    BY <2>1, SaidType DEF Kinds
  <2>3. messages[s] \o <<Said(s, content[s])>> = Append(messages[s], Said(s, content[s]))
    BY <1>1, <2>2, OneMore
  <2> QED
    BY <1>3, <2>1, <2>3 DEF Spoken
<1> QED
  BY <1>2, <1>3

\* A message that the model says keeps a thread as it should be.
LEMMA WholeSpoken ==
    ASSUME NEW s \in Session, NEW u \in Seq(Message) \union {NoThread},
           NEW t \in Seq(Message), NEW text \in Texts,
           Begins(s, u, t), Answered(t, Len(t))
    PROVE  LET v == Append(t, Said(s, text))
           IN  /\ v \in Seq(Message)
               /\ Begins(s, u, v)
               /\ Answered(v, Len(v))
<1> DEFINE m == Said(s, text)
<1>1. m \in Message
  BY SaidType DEF Kinds
<1>2. m # Said(s, "user") /\ m.kind \notin Calls \union Responses
  BY DEF Said, Texts, Calls, Responses
<1> HIDE DEF m
<1>3. Append(t, m) \in Seq(Message)
  BY <1>1, OneMore
<1>4. Begins(s, u, Append(t, m))
  BY <1>1, <1>2, BeginsOn
<1>5. Answered(Append(t, m), Len(Append(t, m)))
  BY <1>1, <1>2, AnsweredOn
<1> QED
  BY <1>3, <1>4, <1>5 DEF m

LEMMA WholeStep ==
    ASSUME TypeOK, Restoring, Continued, \A s \in Session : Known(s),
           \A s \in Session : Foreign(s), \A s \in Session : StoredWhole(s),
           [Next]_vars, NEW s \in Session, Whole(s)
    PROVE  Whole(s)'
<1>1. Moves(s)
  BY MovesStep
<1>2. /\ pc[s] \in {"idle", "restore", "admit", "stream", "settle", "call",
                    "verify", "done", "store", "name", "close", "ended"}
      /\ messages[s] \in Seq(Message)
  BY DEF TypeOK
<1>3. ASSUME pc[s] # "idle" PROVE Origin(s)' = Origin(s) \/ Origin(s)' = NoThread
  BY <1>3, OriginStep
<1>4. ASSUME NEW t, pc[s] # "idle", Begins(s, Origin(s), t)
      PROVE  Begins(s, Origin(s)', t)
  BY <1>3, <1>4, BeginsStill
<1>5. Origin(s) \in Seq(Message) \union {NoThread}
  BY OriginType
<1>6. Said(s, "user") \in Message
  BY SaidType DEF Kinds
<1>7. CASE Stays(s)
  <2>1. pc'[s] = pc[s] /\ messages'[s] = messages[s] /\ call'[s] = call[s]
    BY <1>7 DEF Stays
  <2>2. CASE pc[s] \in Running
    BY <1>4, <2>1, <2>2 DEF Whole, Running
  <2>3. CASE pc[s] = "call"
    BY <1>4, <2>1, <2>3 DEF Whole, Running
  <2>4. CASE pc[s] \notin Running \union {"call"}
    BY <2>1, <2>4 DEF Whole
  <2> QED
    BY <2>2, <2>3, <2>4
<1>8. CASE Opens(s)
  <2>1. CASE pc'[s] = "restore"
    BY <1>8, <2>1 DEF Opens, Whole, Running
  <2>2. CASE pc'[s] = "admit"
    <3>1. Origin(s)' = <<>>
      BY <1>8, <2>2 DEF Opens, Origin
    <3>2. <<>> \in Seq(Message) /\ Len(<<>>) = 0
      BY EmptySeq
    <3>3. Begins(s, <<>>, <<>> \o <<Said(s, "user")>>)
      <4>1. \A i \in 1..Len(<<>>) : <<>>[i] # Said(s, "user")
        BY <3>2
      <4> QED
        BY <3>2, <4>1, BeginsRestored
    <3>4. <<>> \o <<Said(s, "user")>> = <<Said(s, "user")>>
      <4>1. <<Said(s, "user")>> \in Seq(Message)
        BY OneMessage DEF Kinds
      <4> QED
        BY <4>1, ConcatEmptySeq
    <3>5. Answered(<<Said(s, "user")>>, Len(<<Said(s, "user")>>))
      BY DEF Answered, Said, Calls
    <3> QED
      BY <1>8, <2>2, <3>1, <3>3, <3>4, <3>5 DEF Opens, Whole, Running
  <2> QED
    BY <1>8, <2>1, <2>2 DEF Opens
<1>9. CASE Restores(s)
  <2> DEFINE u == store[orig[s]]
  <2>1. /\ u \in Seq(Message) /\ orig[s] \in Session /\ u # NoThread
        /\ Origin(s) = u
        /\ messages'[s] = Append(u, Said(s, "user"))
        /\ pc[s] = "restore" /\ pc'[s] = "admit"
    BY <1>9, RestoredThread DEF Restores
  <2>2. ASSUME NEW i \in 1..Len(u) PROVE u[i] # Said(s, "user")
    <3>1. pc[u[i].of] \in Stored
      BY <2>1 DEF Foreign
    <3> QED
      BY <2>1, <3>1 DEF Said, Stored
  <2> HIDE DEF u
  <2>3. Begins(s, u, Append(u, Said(s, "user")))
    BY <1>6, <2>1, <2>2, BeginsRestored, OneMore
  <2>4. Answered(u, Len(u))
    BY <2>1 DEF StoredWhole, u
  <2>5. Said(s, "user").kind \notin Calls \union Responses
    BY DEF Said, Calls, Responses
  <2>6. Answered(messages'[s], Len(messages'[s]))
    BY <1>6, <2>1, <2>4, <2>5, AnsweredOn
  <2>7. Begins(s, Origin(s)', messages'[s])
    BY <1>4, <2>1, <2>3
  <2> QED
    BY <2>1, <2>6, <2>7 DEF Whole, Running
<1>10. CASE Ends(s)
  BY <1>10 DEF Ends, Whole, Running
<1>11. CASE GoesOn(s)
  BY <1>4, <1>11 DEF GoesOn, Whole, Running
<1>12. CASE Speaks(s)
  <2>1. pc[s] = "settle" /\ pc'[s] = "verify"
        /\ messages'[s] = messages[s] \o Spoken(s)
    BY <1>12 DEF Speaks
  <2>2. Begins(s, Origin(s), messages[s]) /\ Answered(messages[s], Len(messages[s]))
    BY <2>1 DEF Whole, Running
  <2>3. /\ Begins(s, Origin(s), messages'[s])
        /\ Answered(messages'[s], Len(messages'[s]))
    BY <1>2, <1>5, <2>1, <2>2, SpokenThread, WholeSpoken
  <2> QED
    BY <1>4, <2>1, <2>3 DEF Whole, Running
<1>13. CASE CallsOut(s)
  <2> DEFINE t == messages[s] \o Spoken(s)
             m == Said(s, call[s])
  <2>1. /\ pc[s] = "settle" /\ pc'[s] = "call"
        /\ call[s] # "" /\ call'[s] = call[s]
        /\ messages'[s] = t \o <<m>>
    BY <1>13 DEF CallsOut
  <2>2. Begins(s, Origin(s), messages[s]) /\ Answered(messages[s], Len(messages[s]))
    BY <2>1 DEF Whole, Running
  <2>3. /\ t \in Seq(Message)
        /\ Begins(s, Origin(s), t)
        /\ Answered(t, Len(t))
    BY <1>2, <1>5, <2>2, SpokenThread, WholeSpoken
  <2>4. call[s] \in Calls
    BY <2>1 DEF TypeOK
  <2>5. m \in Message
    BY <2>4, SaidType DEF Kinds
  <2>6. m # Said(s, "user") /\ m.kind \in Calls
    BY <2>4 DEF Said, Calls
  <2> HIDE DEF t, m
  <2>7. messages'[s] = Append(t, m) /\ messages'[s][Len(messages'[s])] = m
    <3>1. messages'[s] = Append(t, m)
      BY <2>1, <2>3, <2>5, OneMore
    <3>2. Append(t, m)[Len(Append(t, m))] = m
      BY <2>3, <2>5, OneMore
    <3> QED
      BY <3>1, <3>2
  <2>8. Begins(s, Origin(s), messages'[s])
    BY <1>5, <2>3, <2>5, <2>6, <2>7, BeginsOn
  <2>9. Answered(messages'[s], Len(messages'[s]) - 1)
    BY <2>3, <2>5, <2>6, <2>7, AnsweredBut
  <2> QED
    BY <1>4, <2>1, <2>7, <2>8, <2>9 DEF Whole, Running, m
<1>14. CASE IsAnswered(s)
  <2>1. PICK response \in Responses :
          messages'[s] = Append(messages[s], Said(s, response))
    BY <1>14 DEF IsAnswered
  <2>2. pc[s] = "call" /\ pc'[s] = "stream"
    BY <1>14 DEF IsAnswered
  <2> DEFINE t == messages[s]
             m == Said(s, response)
  <2>3. /\ Begins(s, Origin(s), t)
        /\ t[Len(t)] = Said(s, call[s])
        /\ Answered(t, Len(t) - 1)
        /\ call[s] \in Calls
    BY <2>2 DEF Whole, Running, TypeOK
  <2>4. Len(t) > 0
    BY <1>2, <2>3 DEF Begins
  <2>5. m \in Message
    BY SaidType DEF Kinds
  <2>6. /\ m # Said(s, "user")
        /\ m.kind \in Responses
        /\ m.of = t[Len(t)].of
        /\ t[Len(t)].kind \in Calls
    BY <2>3 DEF Said, Responses
  <2> HIDE DEF m, t
  <2>7. t \in Seq(Message) /\ messages'[s] = Append(t, m)
    BY <1>2, <2>1 DEF t, m
  <2>8. Begins(s, Origin(s), messages'[s])
    BY <1>5, <2>3, <2>5, <2>6, <2>7, BeginsOn
  <2>9. Answered(messages'[s], Len(messages'[s]))
    BY <2>3, <2>4, <2>5, <2>6, <2>7, AnsweredNow
  <2> QED
    BY <1>4, <2>2, <2>8, <2>9 DEF Whole, Running
<1> QED
  BY <1>1, <1>7, <1>8, <1>9, <1>10, <1>11, <1>12, <1>13, <1>14 DEF Moves

LEMMA StoredWholeStep ==
    ASSUME TypeOK, Continued, \A s \in Session : Known(s),
           [Next]_vars, NEW s \in Session, Whole(s), StoredWhole(s)
    PROVE  StoredWhole(s)'
<1> SUFFICES ASSUME store'[s] # NoThread
             PROVE  /\ Begins(s, Origin(s)', store'[s])
                    /\ Answered(store'[s], Len(store'[s]))
  BY DEF StoredWhole
<1>1. ASSUME NEW t, pc[s] # "idle", Begins(s, Origin(s), t)
      PROVE  Begins(s, Origin(s)', t)
  BY <1>1, OriginStep, BeginsStill
<1>2. CASE store'[s] = store[s]
  <2>1. pc[s] # "idle"
    BY <1>2 DEF Known, Stored
  <2> QED
    BY <1>1, <1>2, <2>1 DEF StoredWhole
<1>3. CASE pc[s] = "store" /\ store'[s] = messages[s]
  BY <1>1, <1>3 DEF Whole, Running
<1> QED
  BY <1>2, <1>3, StoreStep

LEMMA ForeignStep ==
    ASSUME TypeOK, Restoring, \A s \in Session : Known(s),
           \A s \in Session : Foreign(s), \A s \in Session : Whole(s),
           [Next]_vars, NEW s \in Session
    PROVE  Foreign(s)'
<1> DEFINE Settled(t) == \A i \in 1..Len(t) : t[i].of = s \/ pc[t[i].of] \in Stored
           Settles(t) == \A i \in 1..Len(t) : t[i].of = s \/ pc'[t[i].of] \in Stored
<1>1. ASSUME NEW t \in Seq(Message), Settled(t) PROVE Settles(t)
  <2>1. ASSUME NEW i \in 1..Len(t) PROVE t[i].of \in Session
    BY AuthorType
  <2> QED
    BY <1>1, <2>1, StoredStays
<1>2. messages[s] \in Seq(Message) /\ Settled(messages[s])
  BY DEF TypeOK, Foreign
<1>3. ASSUME NEW t \in Seq(Message), Settled(t),
             NEW m \in Message, m.of = s
      PROVE  Append(t, m) \in Seq(Message) /\ Settled(Append(t, m))
  BY <1>3, OneMore
<1>4. ASSUME store'[s] # NoThread
      PROVE  \A i \in 1..Len(store'[s]) : pc'[store'[s][i].of] \in Stored
  <2>1. CASE store'[s] = store[s]
    <3>1. store[s] \in Seq(Message)
      BY <1>4, <2>1 DEF TypeOK
    <3>2. ASSUME NEW i \in 1..Len(store[s]) PROVE pc'[store[s][i].of] \in Stored
      <4>1. store[s][i].of \in Session
        BY <3>1, AuthorType
      <4> QED
        BY <1>4, <2>1, <4>1, StoredStays DEF Foreign
    <3> QED
      BY <2>1, <3>2
  <2>2. CASE pc'[s] = "name" /\ store'[s] = messages[s]
    <3>1. Settles(messages[s])
      BY <1>1, <1>2
    <3> QED
      BY <2>2, <3>1 DEF Stored
  <2> QED
    BY <1>4, <2>1, <2>2, StoreStep
<1>5. Settles(messages'[s])
  <2>1. CASE messages'[s] = messages[s]
    BY <1>1, <1>2, <2>1
  <2>2. CASE messages'[s] = <<>>
    BY <2>2, EmptySeq
  <2>3. CASE Opens(s)
    BY <2>3 DEF Opens, Said
  <2>4. CASE Restores(s)
    <3>1. /\ orig[s] \in Session
          /\ store[orig[s]] \in Seq(Message) /\ store[orig[s]] # NoThread
          /\ messages'[s] = Append(store[orig[s]], Said(s, "user"))
      BY <2>4, RestoredThread
    <3>2. Settled(store[orig[s]])
      BY <3>1 DEF Foreign
    <3>3. Said(s, "user") \in Message /\ Said(s, "user").of = s
      BY SaidType DEF Kinds, Said
    <3> QED
      BY <1>1, <1>3, <3>1, <3>2, <3>3
  <2>5. /\ messages[s] \o Spoken(s) \in Seq(Message)
        /\ Settled(messages[s] \o Spoken(s))
    <3>1. ASSUME content[s] \in Texts
          PROVE  Said(s, content[s]) \in Message /\ Said(s, content[s]).of = s
      BY <3>1, SaidType DEF Kinds, Said
    <3> QED
      BY <1>2, <1>3, <3>1, SpokenThread
  <2>6. CASE Speaks(s)
    BY <1>1, <2>5, <2>6 DEF Speaks
  <2>7. CASE CallsOut(s)
    <3>1. call[s] \in Calls /\ messages'[s] = (messages[s] \o Spoken(s)) \o <<Said(s, call[s])>>
      BY <2>7 DEF CallsOut, TypeOK
    <3>2. Said(s, call[s]) \in Message /\ Said(s, call[s]).of = s
      BY <3>1, SaidType DEF Kinds, Said
    <3>3. messages'[s] = Append(messages[s] \o Spoken(s), Said(s, call[s]))
      BY <2>5, <3>1, <3>2, OneMore
    <3> QED
      BY <1>1, <1>3, <2>5, <3>2, <3>3
  <2>8. CASE IsAnswered(s)
    <3>1. PICK response \in Responses :
            messages'[s] = Append(messages[s], Said(s, response))
      BY <2>8 DEF IsAnswered
    <3>2. Said(s, response) \in Message /\ Said(s, response).of = s
      BY SaidType DEF Kinds, Said
    <3> QED
      BY <1>1, <1>2, <1>3, <3>1, <3>2
  <2> QED
    BY <2>1, <2>2, <2>3, <2>4, <2>6, <2>7, <2>8, MovesStep
       DEF Moves, Stays, Ends, GoesOn
<1> QED
  BY <1>4, <1>5 DEF Foreign

\* What a session adds to its thread is its own.
LEMMA OwnOn ==
    ASSUME NEW s \in Session, NEW t \in Seq(Message), NEW m \in Message, m.of = s,
           \A i, j \in 1..Len(t) : i < j /\ t[i].of = s => t[j].of = s
    PROVE  LET v == Append(t, m)
           IN  /\ v \in Seq(Message)
               /\ \A i, j \in 1..Len(v) : i < j /\ v[i].of = s => v[j].of = s
               /\ (\A i \in 1..Len(t) : t[i].of = s) => \A i \in 1..Len(v) : v[i].of = s
<1> DEFINE v == Append(t, m)
<1>1. /\ v \in Seq(Message)
      /\ Len(v) = Len(t) + 1
      /\ \A i \in 1..Len(t) : v[i] = t[i]
      /\ v[Len(t) + 1] = m
      /\ Len(t) \in Nat
  BY OneMore
<1> HIDE DEF v
<1>2. \A i \in 1..Len(v) : i \in 1..Len(t) \/ i = Len(t) + 1
  BY <1>1
<1>3. \A i, j \in 1..Len(v) : i < j /\ v[i].of = s => v[j].of = s
  BY <1>1, <1>2
<1>4. (\A i \in 1..Len(t) : t[i].of = s) => \A i \in 1..Len(v) : v[i].of = s
  BY <1>1, <1>2
<1> QED
  BY <1>1, <1>3, <1>4 DEF v

LEMMA OwnLastStep ==
    ASSUME TypeOK, Restoring, \A s \in Session : Foreign(s),
           \A s \in Session : Whole(s), [Next]_vars,
           NEW s \in Session, OwnLast(s)
    PROVE  OwnLast(s)'
<1> DEFINE OwnTail(t) == \A i, j \in 1..Len(t) : i < j /\ t[i].of = s => t[j].of = s
           All(t) == \A i \in 1..Len(t) : t[i].of = s
<1>1. /\ messages[s] \in Seq(Message)
      /\ OwnTail(messages[s])
      /\ orig[s] = NoThread => All(messages[s])
  BY DEF TypeOK, OwnLast
<1>2. ASSUME NEW t \in Seq(Message), OwnTail(t), NEW m \in Message, m.of = s
      PROVE  /\ Append(t, m) \in Seq(Message)
             /\ OwnTail(Append(t, m))
             /\ All(t) => All(Append(t, m))
  BY <1>2, OwnOn
<1>3. pc[s] = "idle" \/ orig'[s] = orig[s]
  BY OrigStep
<1>4. SUFFICES OwnTail(messages'[s]) /\ (orig'[s] = NoThread => All(messages'[s]))
  BY DEF OwnLast
<1>5. /\ messages[s] \o Spoken(s) \in Seq(Message)
      /\ OwnTail(messages[s] \o Spoken(s))
      /\ orig[s] = NoThread => All(messages[s] \o Spoken(s))
  <2>1. ASSUME content[s] \in Texts
        PROVE  Said(s, content[s]) \in Message /\ Said(s, content[s]).of = s
    BY <2>1, SaidType DEF Kinds, Said
  <2> HIDE DEF OwnTail, All
  <2> QED
    BY <1>1, <1>2, <2>1, SpokenThread
<1>6. CASE messages'[s] = messages[s] /\ pc[s] # "idle"
  BY <1>1, <1>3, <1>6
<1>7. CASE messages'[s] = <<>>
  BY <1>7, EmptySeq
<1>8. CASE Opens(s)
  BY <1>8 DEF Opens, Said
<1>9. CASE Restores(s)
  <2> DEFINE u == store[orig[s]]
             m == Said(s, "user")
  <2>1. /\ orig[s] \in Session
        /\ u \in Seq(Message) /\ u # NoThread
        /\ messages'[s] = Append(u, m)
        /\ pc[s] = "restore"
    BY <1>9, RestoredThread DEF Restores
  <2>2. ASSUME NEW i \in 1..Len(u) PROVE u[i].of # s
    BY <2>1 DEF Foreign, Stored
  <2>3. m \in Message /\ m.of = s
    BY SaidType DEF Kinds, Said
  <2>4. orig'[s] # NoThread
    BY <1>3, <2>1, Constants
  <2> HIDE DEF u, m
  <2>5. OwnTail(u)
    BY <2>2
  <2> HIDE DEF OwnTail, All
  <2> QED
    BY <1>2, <2>1, <2>3, <2>4, <2>5
<1> HIDE DEF OwnTail, All
<1>10. CASE Speaks(s)
  BY <1>3, <1>5, <1>10 DEF Speaks
<1>11. CASE CallsOut(s)
  <2>1. /\ call[s] \in Calls
        /\ pc[s] = "settle"
        /\ messages'[s] = (messages[s] \o Spoken(s)) \o <<Said(s, call[s])>>
    BY <1>11 DEF CallsOut, TypeOK
  <2>2. Said(s, call[s]) \in Message /\ Said(s, call[s]).of = s
    BY <2>1, SaidType DEF Kinds, Said
  <2>3. messages'[s] = Append(messages[s] \o Spoken(s), Said(s, call[s]))
    BY <1>5, <2>1, <2>2, OneMore
  <2> QED
    BY <1>2, <1>3, <1>5, <2>1, <2>2, <2>3
<1>12. CASE IsAnswered(s)
  <2>1. PICK response \in Responses :
          messages'[s] = Append(messages[s], Said(s, response))
    BY <1>12 DEF IsAnswered
  <2>2. Said(s, response) \in Message /\ Said(s, response).of = s
    BY SaidType DEF Kinds, Said
  <2>3. pc[s] = "call"
    BY <1>12 DEF IsAnswered
  <2> QED
    BY <1>1, <1>2, <1>3, <2>1, <2>2, <2>3
<1>13. CASE messages'[s] = messages[s] /\ pc[s] = "idle"
  <2>1. messages'[s] = <<>>
    BY <1>13 DEF Whole
  <2> QED
    BY <1>7, <2>1
<1> QED
  BY <1>6, <1>7, <1>8, <1>9, <1>10, <1>11, <1>12, <1>13, MovesStep
     DEF Moves, Stays, Ends, GoesOn

-----------------------------------------------------------------------------
(* The verdict.                                                            *)

\* The claims the verifier looks for are those of the thread.
LEMMA LiesAre == \A s : Lies(s) <=> LiesIn(messages[s])
BY DEF Lies, Claims, HasCalled, LastAssistantMessage, LiesIn

\* What a step does to the verdict on one thread: nothing, before it is looked
\* at and after; but for the step that looks at it.
LooksAt(s) ==
    /\ pc'[s] = "done"
    /\ messages'[s] = messages[s]
    /\ conn'[s] = "open" => conn[s] = "open"
    /\ \/ /\ LiesIn(messages[s])
          /\ \/ verdict'[s] = {"silent"}
             \/ conn[s] = "open" /\ verdict'[s] = {"warned"}
             \/ conn[s] # "open" /\ verdict'[s] = {}
       \/ ~LiesIn(messages[s]) /\ verdict'[s] = {}

LooksOn(s) ==
    \/ /\ verdict'[s] = verdict[s]
       /\ \/ pc'[s] = "ended"
          \/ pc[s] \notin Judged \union {"ended"} /\ pc'[s] \notin Judged
          \/ /\ pc'[s] = pc[s] \/ (pc[s] \in Judged /\ pc'[s] \in Judged)
             /\ messages'[s] = messages[s]
             /\ conn'[s] = "open" => conn[s] = "open"
    \/ pc[s] = "verify" /\ verdict[s] = {} /\ LooksAt(s)

LEMMA LooksOnStep ==
    ASSUME TypeOK, [Next]_vars, \A s \in Session : Verdict(s)
    PROVE  \A p \in Session : LooksOn(p)
<1> DEFINE Looks == \A p \in Session : LooksOn(p)
           Apart(s) == \A p \in Session \ {s} : /\ pc'[p] = pc[p]
                                                /\ messages'[p] = messages[p]
                                                /\ verdict'[p] = verdict[p]
                                                /\ conn'[p] = conn[p]
<1> USE DEF TypeOK, Goto, Shows, WriteSucceeds, WriteFails, End, Return,
            round, history
<1>1. ASSUME NEW s \in Session, LooksOn(s), Apart(s) PROVE Looks
  <2>1. \A p \in Session \ {s} : LooksOn(p)
    BY <1>1 DEF LooksOn
  <2> QED
    BY <1>1, <2>1
<1>2. ASSUME UNCHANGED <<pc, conn, messages, verdict>> PROVE Looks
  BY <1>2 DEF LooksOn
<1> HIDE DEF Looks
<1>3. ASSUME NEW s \in Session, NewPromptSession(s) PROVE Looks
  <2>1. pc' = [pc EXCEPT ![s] = "admit"] \/ pc' = [pc EXCEPT ![s] = "restore"]
    BY <1>3 DEF NewPromptSession
  <2>2. LooksOn(s)
    BY <1>3, <2>1 DEF NewPromptSession, LooksOn, LooksAt, Judged
  <2>3. Apart(s)
    BY <1>3, <2>1 DEF NewPromptSession
  <2> QED
    BY <1>1, <2>2, <2>3
<1>4. ASSUME NEW s \in Session, RestoreThread(s) PROVE Looks
  <2>1. LooksOn(s)
    BY <1>4 DEF RestoreThread, LooksOn, LooksAt, Judged
  <2>2. Apart(s)
    BY <1>4 DEF RestoreThread
  <2> QED
    BY <1>1, <2>1, <2>2
<1>5. ASSUME NEW s \in Session, Admit(s) PROVE Looks
  <2>1. LooksOn(s)
    BY <1>5 DEF Admit, LooksOn, LooksAt, Judged
  <2>2. Apart(s)
    BY <1>5 DEF Admit
  <2> QED
    BY <1>1, <2>1, <2>2
<1>6. ASSUME NEW s \in Session, ChunkFails(s) PROVE Looks
  <2>1. LooksOn(s)
    BY <1>6 DEF ChunkFails, LooksOn, LooksAt, Judged
  <2>2. Apart(s)
    BY <1>6 DEF ChunkFails
  <2> QED
    BY <1>1, <2>1, <2>2
<1>7. ASSUME NEW s \in Session, EndStream(s) PROVE Looks
  <2>1. LooksOn(s)
    BY <1>7 DEF EndStream, LooksOn, LooksAt, Judged
  <2>2. Apart(s)
    BY <1>7 DEF EndStream
  <2> QED
    BY <1>1, <2>1, <2>2
<1>8. ASSUME NEW s \in Session, Stop(s) PROVE Looks
  <2>1. LooksOn(s)
    BY <1>8 DEF Stop, LooksOn, LooksAt, Judged
  <2>2. Apart(s)
    BY <1>8 DEF Stop
  <2> QED
    BY <1>1, <2>1, <2>2
<1>9. ASSUME NEW s \in Session, Think(s) PROVE Looks
  <2>1. LooksOn(s)
    BY <1>9 DEF Think, LooksOn, LooksAt, Judged
  <2>2. Apart(s)
    BY <1>9 DEF Think
  <2> QED
    BY <1>1, <2>1, <2>2
<1>10. ASSUME NEW s \in Session, NEW response \in Responses,
             Respond(s, response), verdict' = verdict,
             conn' = conn \/ conn' = [conn EXCEPT ![s] = "broken"] PROVE Looks
  <2>1. LooksOn(s)
    BY <1>10 DEF Respond, LooksOn, LooksAt, Judged
  <2>2. Apart(s)
    BY <1>10 DEF Respond
  <2> QED
    BY <1>1, <2>1, <2>2
<1>11. ASSUME NEW s \in Session, Return(s), verdict' = verdict,
             conn' = conn \/ conn' = [conn EXCEPT ![s] = "broken"] PROVE Looks
  <2>1. LooksOn(s)
    BY <1>11 DEF Return, LooksOn, LooksAt, Judged
  <2>2. Apart(s)
    BY <1>11 DEF Return
  <2> QED
    BY <1>1, <2>1, <2>2
<1>12. ASSUME NEW s \in Session, FindNoLies(s) PROVE Looks
  <2>1. verdict[s] = {}
    BY <1>12 DEF FindNoLies, Verdict, Judged
  <2>2. LooksOn(s)
    BY <1>12, <2>1, LiesAre DEF FindNoLies, LooksOn, LooksAt, Judged
  <2>3. Apart(s)
    BY <1>12, <2>1 DEF FindNoLies
  <2> QED
    BY <1>1, <2>2, <2>3
<1>13. ASSUME NEW s \in Session, FindLies(s) PROVE Looks
  <2>1. verdict[s] = {}
    BY <1>13 DEF FindLies, Verdict, Judged
  <2>2. conn' = conn \/ conn' = [conn EXCEPT ![s] = "broken"]
    BY <1>13 DEF FindLies
  <2>3. \/ conn[s] = "open" /\ verdict' = [verdict EXCEPT ![s] = {"warned"}]
        \/ conn[s] # "open" /\ verdict' = verdict
    BY <1>13 DEF FindLies
  <2>4. LooksOn(s)
    BY <1>13, <2>1, <2>2, <2>3, LiesAre DEF FindLies, LooksOn, LooksAt, Judged
  <2>5. Apart(s)
    BY <1>13, <2>1, <2>2, <2>3 DEF FindLies
  <2> QED
    BY <1>1, <2>4, <2>5
<1>14. ASSUME NEW s \in Session, WriteDone(s) PROVE Looks
  <2>1. conn' = conn \/ conn' = [conn EXCEPT ![s] = "broken"]
    BY <1>14 DEF WriteDone
  <2>2. LooksOn(s)
    BY <1>14, <2>1 DEF WriteDone, LooksOn, LooksAt, Judged
  <2>3. Apart(s)
    BY <1>14, <2>1 DEF WriteDone
  <2> QED
    BY <1>1, <2>2, <2>3
<1>15. ASSUME NEW s \in Session, WriteThreadId(s) PROVE Looks
  <2>1. conn' = conn \/ conn' = [conn EXCEPT ![s] = "broken"]
    BY <1>15 DEF WriteThreadId
  <2>2. LooksOn(s)
    BY <1>15, <2>1 DEF WriteThreadId, LooksOn, LooksAt, Judged
  <2>3. Apart(s)
    BY <1>15, <2>1 DEF WriteThreadId
  <2> QED
    BY <1>1, <2>2, <2>3
<1>16. ASSUME NEW s \in Session, StoreThread(s) PROVE Looks
  <2>1. LooksOn(s)
    BY <1>16 DEF StoreThread, LooksOn, LooksAt, Judged
  <2>2. Apart(s)
    BY <1>16 DEF StoreThread
  <2> QED
    BY <1>1, <2>1, <2>2
<1>17. ASSUME NEW s \in Session, HangUp(s) PROVE Looks
  <2>1. LooksOn(s)
    BY <1>17 DEF HangUp, LooksOn, LooksAt, Judged
  <2>2. Apart(s)
    BY <1>17 DEF HangUp
  <2> QED
    BY <1>1, <2>1, <2>2
<1> HIDE DEF TypeOK, Return, Shows
<1>18. ASSUME NEW s \in Session, Start(s) PROVE Looks
  BY <1>3, <1>4, <1>5, <1>11, <1>18
     DEF Start, RestoreFails, Refuse
<1>19. ASSUME NEW s \in Session, Stream(s) PROVE Looks
  BY <1>2, <1>6, <1>7, <1>11, <1>19
     DEF Stream, Chunk, StreamCall, StreamError
<1>20. ASSUME NEW s \in Session, Settle(s) PROVE Looks
  BY <1>8, <1>9, <1>11, <1>20
     DEF Settle, ThinkFails
<1>21. ASSUME NEW s \in Session, Called(s) PROVE Looks
  BY <1>10, <1>21
     DEF Called, CallFunction, CallAction, ActionFails, Respond, Responses
<1>22. ASSUME NEW s \in Session, Conclude(s) PROVE Looks
  BY <1>12, <1>13, <1>14, <1>15, <1>16, <1>11, <1>22
     DEF Conclude, Close
<1>23. ASSUME NEW s \in Session, Environment(s) PROVE Looks
  BY <1>2, <1>17, <1>23
     DEF Environment, Expire
<1>24. ASSUME UNCHANGED vars PROVE Looks
  BY <1>2, <1>24 DEF vars
<1>25. Looks
  BY <1>18, <1>19, <1>20, <1>21, <1>22, <1>23, <1>24 DEF Next
<1> QED
  BY <1>25 DEF Looks

LEMMA VerdictStep ==
    ASSUME TypeOK, [Next]_vars, \A s \in Session : Verdict(s), NEW s \in Session
    PROVE  Verdict(s)'
<1>1. LooksOn(s)
  BY LooksOnStep
<1>2. CASE verdict'[s] = verdict[s] /\ pc'[s] = "ended"
  BY <1>2 DEF Verdict, Judged
<1>3. CASE /\ verdict'[s] = verdict[s]
           /\ pc[s] \notin Judged \union {"ended"}
           /\ pc'[s] \notin Judged
  BY <1>3 DEF Verdict, Judged
<1>4. CASE /\ verdict'[s] = verdict[s]
           /\ pc'[s] = pc[s] \/ (pc[s] \in Judged /\ pc'[s] \in Judged)
           /\ messages'[s] = messages[s]
           /\ conn'[s] = "open" => conn[s] = "open"
  BY <1>4 DEF Verdict, Judged
<1>5. CASE LooksAt(s)
  <2>1. CASE LiesIn(messages[s])
    BY <1>5, <2>1 DEF LooksAt, Verdict, Judged
  <2>2. CASE ~LiesIn(messages[s])
    BY <1>5, <2>2 DEF LooksAt, Verdict, Judged
  <2> QED
    BY <2>1, <2>2
<1> QED
  BY <1>1, <1>2, <1>3, <1>4, <1>5 DEF LooksOn

-----------------------------------------------------------------------------
(* What the invariants say of the properties.                              *)

\* A thread that begins with another, message by message, has it as a prefix.
LEMMA PrefixIs ==
    ASSUME NEW u \in Seq(Message), NEW t \in Seq(Message), Len(u) < Len(t),
           \A i \in 1..Len(u) : t[i] = u[i]
    PROVE  IsPrefix(u, t)
<1>1. Len(u) \in Nat /\ Len(t) \in Nat
  OBVIOUS
<1>2. SubSeq(u, 1, Len(u)) = u
  BY SubSeqFull
<1>3. SubSeq(t, 1, Len(u)) = u
  <2> DEFINE v == SubSeq(t, 1, Len(u))
  <2>1. \A i \in 1..Len(u) : t[i] \in Message
    BY <1>1, ElementOfSeq
  <2>2. /\ v \in Seq(Message)
        /\ Len(v) = Len(u)
        /\ \A i \in 1..Len(u) : v[i] = t[i]
    <3>1. /\ v \in Seq(Message)
          /\ Len(v) = IF 1 <= Len(u) THEN Len(u) - 1 + 1 ELSE 0
          /\ \A i \in 1..Len(u) - 1 + 1 : v[i] = t[1 + i - 1]
      BY <1>1, <2>1, SubSeqProperties
    <3> HIDE DEF v
    <3> QED
      BY <1>1, <3>1
  <2> HIDE DEF v
  <2>3. \A i \in 1..Len(v) : v[i] = u[i]
    BY <2>2
  <2>4. v = u
    BY <2>2, <2>3, SeqEqual
  <2> QED
    BY <2>4 DEF v
<1> QED
  BY <1>1, <1>2, <1>3 DEF IsPrefix

LEMMA ContinuesWhole ==
    ASSUME TypeOK, NEW s \in Session, store[s] # NoThread, StoredWhole(s)
    PROVE  Continues(s, store[s])
<1> DEFINE t == store[s]
<1>1. t \in Seq(Message) /\ Begins(s, Origin(s), t) /\ Answered(t, Len(t))
  BY DEF TypeOK, StoredWhole
<1> HIDE DEF t
<1>2. ASSUME orig[s] # NoThread, store[orig[s]] # NoThread
      PROVE  /\ IsPrefix(store[orig[s]], t)
             /\ t[Len(store[orig[s]]) + 1] = Said(s, "user")
  <2>1. store[orig[s]] \in Seq(Message) /\ Origin(s) = store[orig[s]]
    BY <1>2 DEF TypeOK, Origin
  <2>2. /\ Len(store[orig[s]]) < Len(t)
        /\ \A i \in 1..Len(store[orig[s]]) : t[i] = store[orig[s]][i]
        /\ t[Len(store[orig[s]]) + 1] = Said(s, "user")
    BY <1>1, <1>2, <2>1 DEF Begins
  <2> QED
    BY <1>1, <2>1, <2>2, PrefixIs
<1>3. ASSUME orig[s] = NoThread PROVE t[1] = Said(s, "user")
  <2>1. Origin(s) = <<>>
    BY <1>3 DEF Origin
  <2>2. <<>> \in Seq(Message) /\ Len(<<>>) = 0
    BY EmptySeq
  <2>3. <<>> # NoThread
    BY <2>2, Constants
  <2>4. t[Len(<<>>) + 1] = Said(s, "user")
    BY <1>1, <2>1, <2>3 DEF Begins
  <2> QED
    BY <2>2, <2>4
<1>4. Cardinality({i \in 1..Len(t) : t[i] = Said(s, "user")}) = 1
  <2>1. PICK k \in 1..Len(t) : \A i \in 1..Len(t) : t[i] = Said(s, "user") <=> i = k
    BY <1>1 DEF Begins
  <2>2. {i \in 1..Len(t) : t[i] = Said(s, "user")} = {k}
    BY <2>1
  <2> QED
    BY <2>2, FS_Singleton
<1>5. \A i \in 1..Len(t) :
        t[i].kind \in Calls <=>
           i < Len(t) /\ t[i + 1].kind \in Responses /\ t[i + 1].of = t[i].of
  BY <1>1 DEF Answered
<1>6. Continues(s, t)
  BY <1>2, <1>3, <1>4, <1>5 DEF Continues
<1> QED
  BY <1>6 DEF t

LEMMA IInvThreadsSound == IInv => ThreadsSound
<1> SUFFICES ASSUME IInv PROVE ThreadsSound
  OBVIOUS
<1>1. TypeOK /\ (\A s \in Session : Known(s)) /\ \A s \in Session : StoredWhole(s)
  BY DEF IInv
<1>2. \A s \in Session : store[s] # NoThread => Continues(s, store[s])
  BY <1>1, ContinuesWhole
<1>3. \A s \in knows : store[s] # NoThread \/ s \in unstored
  BY <1>1 DEF TypeOK, Known
<1>4. knows \intersect missed = {}
  BY <1>1 DEF TypeOK, Known
<1> QED
  BY <1>2, <1>3, <1>4 DEF ThreadsSound

\* The greatest of a set of numbers, as the properties choose it.
LEMMA Greatest ==
    ASSUME NEW n \in Nat, NEW S \in SUBSET (1..n), S # {}
    PROVE  LET g == CHOOSE i \in S : \A j \in S : j <= i
           IN  g \in S /\ \A j \in S : j <= g
BY GreatestExists

\* The last message of the model is the last of the session's own, if it has one.
LEMMA LastIsOwn ==
    ASSUME TypeOK, NEW s \in Session, OwnLast(s), Own(s) # {}
    PROVE  /\ LastOwn(s) \in Own(s)
           /\ LastAssistantMessage(s) = LastOwn(s)
<1> DEFINE t == messages[s]
           mine == {i \in 1..Len(t) : IsModels(t[i])}
<1>1. t \in Seq(Message) /\ Len(t) \in Nat
  BY LenProperties DEF TypeOK
<1>2. Own(s) \in SUBSET (1..Len(t)) /\ Own(s) \subseteq mine
  BY DEF Own
<1>3. LastOwn(s) \in Own(s) /\ \A j \in Own(s) : j <= LastOwn(s)
  BY <1>1, <1>2, Greatest DEF LastOwn
<1> DEFINE g == CHOOSE i \in mine : \A j \in mine : j <= i
<1>4. g \in mine /\ \A j \in mine : j <= g
  <2>1. mine \in SUBSET (1..Len(t)) /\ mine # {}
    BY <1>2, <1>3
  <2> HIDE DEF mine, t
  <2> QED
    BY <1>1, <2>1, Greatest
<1>5. LastAssistantMessage(s) = g
  BY <1>4 DEF LastAssistantMessage
<1> HIDE DEF g
<1>6. LastOwn(s) <= g
  BY <1>2, <1>3, <1>4
<1>7. g \in Own(s)
  <2>1. CASE g = LastOwn(s)
    BY <1>3, <2>1
  <2>2. CASE LastOwn(s) < g
    <3>1. LastOwn(s) \in 1..Len(t) /\ t[LastOwn(s)].of = s
      BY <1>3 DEF Own
    <3>2. g \in 1..Len(t) /\ IsModels(t[g])
      BY <1>4
    <3>3. t[g].of = s
      BY <2>2, <3>1, <3>2 DEF OwnLast
    <3> QED
      BY <3>2, <3>3 DEF Own
  <2> QED
    BY <1>1, <1>2, <1>3, <1>4, <1>6, <2>1, <2>2
<1>8. g = LastOwn(s)
  BY <1>1, <1>2, <1>3, <1>6, <1>7
<1> QED
  BY <1>3, <1>5, <1>8

\* Whatever was called was called by some prompt.
LEMMA CalledByOne ==
    ASSUME TypeOK, NEW s \in Session
    PROVE  HasCalled(s) <=> \E p \in Session : CalledBy(s, p)
<1> DEFINE t == messages[s]
<1>1. t \in Seq(Message)
  BY DEF TypeOK
<1>2. ASSUME NEW i \in 1..Len(t), t[i].kind = "set"
      PROVE  \E p \in Session : t[i] = Said(p, "set")
  <2>1. t[i] \in Message
    BY <1>1, ElementOfSeq
  <2>2. t[i].of \in Session /\ t[i] = Said(t[i].of, "set")
    BY ONLY <1>2, <2>1 DEF Message, Said
  <2> QED
    BY <2>2
<1>3. \A p \in Session : Said(p, "set").kind = "set"
  BY DEF Said
<1> QED
  BY <1>2, <1>3 DEF HasCalled, CalledBy

LEMMA IInvClaimsExplained == IInv => ClaimsExplained
<1> SUFFICES ASSUME IInv PROVE ClaimsExplained
  OBVIOUS
<1>1. TypeOK /\ Position
  BY DEF IInv
<1>2. ASSUME NEW s \in Session
      PROVE  Whole(s) /\ OwnLast(s) /\ Verdict(s)
  BY <1>2 DEF IInv
<1>3. ASSUME NEW s \in Session,
             seen[s] \in {"done", "named"},
             ClaimsSomewhere(s),
             ~ReallySet(s)
      PROVE  \/ verdict[s] # {}
             \/ \E p \in Session : CalledBy(s, p)
             \/ messages[s][LastOwn(s)].kind # "claim"
  <2>1. Own(s) # {} /\ messages[s] # <<>>
    <3>1. PICK i \in Own(s) : messages[s][i].kind = "claim"
      BY <1>3 DEF ClaimsSomewhere
    <3>2. i \in 1..Len(messages[s])
      BY <3>1 DEF Own
    <3>3. Len(<<>>) = 0
      BY EmptySeq
    <3> QED
      BY <3>1, <3>2, <3>3
  <2>2. pc[s] \notin {"idle", "ended"}
    BY <1>2, <2>1 DEF Whole
  <2>3. pc[s] \in Judged /\ conn[s] = "open"
    BY <1>1, <1>3, <2>2 DEF Position, PositionOf, Judged, TypeOK
  <2>4. verdict[s] # {} \/ ~Lies(s)
    BY <1>2, <2>3, LiesAre DEF Verdict
  <2>5. ASSUME ~Claims(s) PROVE messages[s][LastOwn(s)].kind # "claim"
    <3>1. LastOwn(s) \in 1..Len(messages[s]) /\ LastAssistantMessage(s) = LastOwn(s)
      BY <1>1, <1>2, <2>1, LastIsOwn DEF Own
    <3>2. LastOwn(s) # 0
      BY ONLY <3>1
    <3> QED
      BY <2>5, <3>1, <3>2 DEF Claims
  <2> QED
    BY <1>1, <2>4, <2>5, CalledByOne DEF Lies
<1>4. ASSUME NEW s \in Session, "warned" \in verdict[s], pc[s] # "ended"
      PROVE  /\ \A p \in Session : ~CalledBy(s, p)
             /\ IF Own(s) = {} THEN orig[s] # NoThread
                               ELSE messages[s][LastOwn(s)].kind = "claim"
  <2>1. Lies(s)
    BY <1>2, <1>4, LiesAre DEF Verdict, Judged
  <2>2. \A p \in Session : ~CalledBy(s, p)
    BY <1>1, <2>1, CalledByOne DEF Lies
  <2>3. ASSUME Own(s) = {} PROVE orig[s] # NoThread
    <3>1. {i \in 1..Len(messages[s]) : IsModels(messages[s][i])} # {}
      BY <2>1 DEF Lies, Claims, LastAssistantMessage
    <3>2. PICK i \in 1..Len(messages[s]) : IsModels(messages[s][i])
      BY <3>1
    <3>3. messages[s][i].of # s
      BY <2>3, <3>2 DEF Own
    <3> QED
      BY <1>2, <3>3 DEF OwnLast
  <2>4. ASSUME Own(s) # {} PROVE messages[s][LastOwn(s)].kind = "claim"
    BY <1>1, <1>2, <2>1, <2>4, LastIsOwn DEF Lies, Claims
  <2> QED
    BY <2>2, <2>3, <2>4
<1>5. UnwarnedExplained
  BY <1>3 DEF UnwarnedExplained
<1>6. WarningsDeserved
  BY <1>4 DEF WarningsDeserved
<1> QED
  BY <1>5, <1>6 DEF ClaimsExplained

-----------------------------------------------------------------------------
(* The theorems.                                                           *)

LEMMA InitIInv == Init => IInv
<1> SUFFICES ASSUME Init PROVE IInv
  OBVIOUS
<1>1. TypeOK /\ Offered /\ Restoring
  BY InitType
<1>2. Position
  BY DEF Init, Position, PositionOf
<1>3. Continued
  BY DEF Init, Continued
<1>4. ASSUME NEW s \in Session PROVE Known(s)
  BY DEF Init, Known
<1>5. ASSUME NEW s \in Session PROVE messages[s] = <<>> /\ Len(messages[s]) = 0
  BY EmptySeq DEF Init
<1>6. ASSUME NEW s \in Session PROVE Foreign(s) /\ OwnLast(s)
  <2>1. \A i \in 1..Len(messages[s]) : FALSE
    BY <1>5
  <2>2. store[s] = NoThread
    BY DEF Init
  <2> QED
    BY <2>1, <2>2 DEF Foreign, OwnLast
<1>7. ASSUME NEW s \in Session PROVE Whole(s) /\ StoredWhole(s)
  BY <1>5 DEF Init, Whole, StoredWhole, Running
<1>8. ASSUME NEW s \in Session PROVE Verdict(s)
  BY DEF Init, Verdict, Judged
<1> QED
  BY <1>1, <1>2, <1>3, <1>4, <1>6, <1>7, <1>8 DEF IInv

LEMMA NextIInv == IInv /\ [Next]_vars => IInv'
<1> SUFFICES ASSUME IInv, [Next]_vars PROVE IInv'
  OBVIOUS
<1> USE DEF IInv
<1>1. TypeOK' /\ (Offered /\ Restoring)'
  BY TypeStep, OfferedStep
<1>2. Position'
  BY PositionStep
<1>3. Continued'
  BY ContinuedStep
<1>4. (\A s \in Session : Known(s))'
  BY KnownStep
<1>5. (\A s \in Session : Foreign(s))'
  BY ForeignStep
<1>6. (\A s \in Session : Whole(s))'
  BY WholeStep
<1>7. (\A s \in Session : StoredWhole(s))'
  BY StoredWholeStep
<1>8. (\A s \in Session : OwnLast(s))'
  BY OwnLastStep
<1>9. (\A s \in Session : Verdict(s))'
  BY VerdictStep
<1> QED
  BY <1>1, <1>2, <1>3, <1>4, <1>5, <1>6, <1>7, <1>8, <1>9

\* The invariant behind all that is proved of the sessions: where each is, what
\* the phone has seen, and what its thread is made of, agree at every step.
THEOREM InductiveInvariant == Spec => []IInv
BY InitIInv, NextIInv, PTL DEF Spec

\* The variables keep their types: no session has more rounds than one after
\* the functions were withdrawn, whatever the model calls.
THEOREM TypeCorrect == Spec => []TypeOK
<1>1. IInv => TypeOK
  BY DEF IInv
<1> QED
  BY <1>1, InductiveInvariant, PTL

\* What session.go writes to every websocket is an answer as session.js expects
\* it, at whatever step the phone, the model or Redis fails: the sessions
\* implement PromptAnswer.
THEOREM AnswersAreOrdered == Spec => AnswersInOrder
<1>1. Init => Answer!Init
  BY DEF Init, Answer!Init
<1>2. IInv /\ [Next]_vars => [Answer!Next]_seen
  BY AnswerStep DEF IInv
<1> QED
  BY <1>1, <1>2, InductiveInvariant, PTL DEF Spec, AnswersInOrder, Answer!Spec

\* However many prompts continue one thread and whatever is lost, refused or cut
\* off, every thread StoreThread leaves in Redis is one whole conversation that
\* goes on where the thread it continues ends, and a phone that was told its id
\* has missed nothing of it.
THEOREM ThreadsAreSound == Spec => []ThreadsSound
BY IInvThreadsSound, InductiveInvariant, PTL

\* An answer that claims an alarm no function set is reported by FindLies, and
\* one that does not is let pass: where it is otherwise, it is for one of the
\* reasons ClaimsExplained lists, an earlier call in the thread or a verifier that
\* failed, say, and for no other.
THEOREM ClaimsAreExplained == Spec => []ClaimsExplained
BY IInvClaimsExplained, InductiveInvariant, PTL

-----------------------------------------------------------------------------
(* Quota.                                                                  *)

\* The credits the running sessions may still charge, one pair for each.
Rest == {c \in Tracker \X (1..Cost) : stage[c[1]] # "out" /\ c[2] > spent[c[1]]}

Bound == MonthlyQuotaCredits - 1 + Cardinality(Tracker) * Cost

\* The strengthening of Overshoot: what is used this month and what may still
\* be charged are together within the bound, and nothing is charged to a
\* month that has not come.
UsedBound ==
    /\ used[month] + Cardinality(Rest) <= Bound
    /\ \A m \in Month : m < month => used[m] <= Bound
    /\ \A m \in Month : m > month => used[m] = 0

\* The strengthening of FreeWithinLimit: free queries are counted ones.
FreeBound == \A m \in Month : free[m] <= global[m] /\ free[m] <= GlobalMax

\* The strengthening of ExpiryExplained: a charge between its two commands
\* has charged the current month, or its month is accounted for already.
ExpireBound ==
    \A s \in Tracker :
        stage[s] = "expire" => keyMonth[s] = month \/ keyMonth[s] \in immortal

QuotaInv == QuotaTypeOK /\ UsedBound /\ FreeBound /\ ExpireBound /\ ExpiryExplained

-----------------------------------------------------------------------------
\* The credits a running session still has are pairs of a finite set.
LEMMA CreditsFinite ==
    /\ IsFiniteSet(Tracker \X (1..Cost))
    /\ Cardinality(Tracker \X (1..Cost)) = Cardinality(Tracker) * Cost
    /\ Cardinality(Tracker) \in Nat
    /\ Cardinality(Tracker) * Cost \in Nat
<1>1. IsFiniteSet(Tracker) /\ Cost \in Nat
  BY QuotaAssumption
<1>2. IsFiniteSet(1..Cost) /\ Cardinality(1..Cost) = Cost
  BY <1>1, FS_Interval
<1>3. Cardinality(Tracker) \in Nat
  BY <1>1, FS_CardinalityType
<1>4. /\ IsFiniteSet(Tracker \X (1..Cost))
      /\ Cardinality(Tracker \X (1..Cost)) = Cardinality(Tracker) * Cost
  BY <1>1, <1>2, FS_Product
<1>5. Cardinality(Tracker \X (1..Cost)) \in Nat
  BY <1>4, FS_CardinalityType
<1> QED
  BY <1>3, <1>4, <1>5

LEMMA RestFinite ==
    /\ IsFiniteSet(Rest)
    /\ Cardinality(Rest) \in Nat
    /\ Cardinality(Rest) <= Cardinality(Tracker) * Cost
<1>1. Rest \in SUBSET (Tracker \X (1..Cost))
  BY DEF Rest
<1>2. IsFiniteSet(Rest) /\ Cardinality(Rest) <= Cardinality(Tracker \X (1..Cost))
  BY <1>1, CreditsFinite, FS_Subset
<1>3. Cardinality(Rest) \in Nat
  BY <1>2, FS_CardinalityType
<1> QED
  BY <1>2, <1>3, CreditsFinite

LEMMA BoundNat == Bound \in Nat /\ Cardinality(Tracker) * Cost <= Bound
BY QuotaAssumption, CreditsFinite DEF Bound

\* Sessions that leave, and charges, leave less to charge.
LEMMA RestShrinks ==
    ASSUME Rest' \subseteq Rest
    PROVE  Cardinality(Rest') <= Cardinality(Rest)
<1>1. Rest' \in SUBSET Rest
  OBVIOUS
<1> QED
  BY <1>1, RestFinite, FS_Subset

\* A charge takes as many pairs as it takes credits.
LEMMA RestCharged ==
    ASSUME NEW s \in Tracker, NEW credits \in Nat,
           QuotaTypeOK, stage[s] \in {"in", "pay"}, IncrBy(s, credits)
    PROVE  Cardinality(Rest') = Cardinality(Rest) - credits
<1> DEFINE a == spent[s] + 1
           b == spent[s] + credits
           Paid == {s} \X (a..b)
<1>1. spent[s] \in 0..Cost /\ b <= Cost /\ Cost \in Nat
  BY QuotaAssumption DEF QuotaTypeOK, IncrBy
<1>2. IsFiniteSet(a..b) /\ Cardinality(a..b) = credits
  <2>1. a \in Int /\ b \in Int
    BY <1>1
  <2>2. IsFiniteSet(a..b) /\ Cardinality(a..b) = IF a > b THEN 0 ELSE b - a + 1
    BY <2>1, FS_Interval
  <2> QED
    BY <2>2, <1>1
<1>3. IsFiniteSet(Paid) /\ Cardinality(Paid) = credits
  <2>1. IsFiniteSet({s}) /\ Cardinality({s}) = 1
    BY FS_Singleton
  <2>2. IsFiniteSet(Paid) /\ Cardinality(Paid) = 1 * Cardinality(a..b)
    BY <1>2, <2>1, FS_Product
  <2> QED
    BY <1>2, <2>2
<1>4. Paid \subseteq Rest
  <2> SUFFICES ASSUME NEW i \in a..b
               PROVE  <<s, i>> \in Rest
    OBVIOUS
  <2>1. i \in 1..Cost /\ i > spent[s]
    BY <1>1
  <2> QED
    BY <2>1 DEF Rest
<1>5. /\ \A q \in Tracker : q # s => stage'[q] = stage[q] /\ spent'[q] = spent[q]
      /\ stage'[s] # "out"
      /\ spent'[s] = spent[s] + credits
  BY DEF IncrBy, MoveTo, QuotaTypeOK
<1>6. Rest' = Rest \ Paid
  <2>1. ASSUME NEW q \in Tracker, NEW i \in 1..Cost
        PROVE  <<q, i>> \in Rest' <=> <<q, i>> \in Rest /\ <<q, i>> \notin Paid
    <3>1. CASE q = s
      <4>1. <<q, i>> \in Rest' <=> i > spent[s] + credits
        BY <1>5, <3>1 DEF Rest
      <4>2. <<q, i>> \in Rest <=> i > spent[s]
        BY <3>1 DEF Rest
      <4>3. <<q, i>> \in Paid <=> i > spent[s] /\ i <= spent[s] + credits
        BY <1>1, <3>1
      <4> QED
        BY <1>1, <4>1, <4>2, <4>3
    <3>2. CASE q # s
      <4>1. <<q, i>> \notin Paid
        BY <3>2
      <4> QED
        BY <1>5, <3>2, <4>1 DEF Rest
    <3> QED
      BY <3>1, <3>2
  <2>2. Rest' \subseteq Tracker \X (1..Cost) /\ Rest \subseteq Tracker \X (1..Cost)
    BY DEF Rest
  <2> QED
    BY <2>1, <2>2
<1>7. Rest \cap Paid = Paid
  BY <1>4
<1>8. Cardinality(Rest \ Paid) = Cardinality(Rest) - Cardinality(Rest \cap Paid)
  <2> HIDE DEF Paid
  <2> QED
    BY RestFinite, FS_Difference
<1> QED
  BY <1>3, <1>6, <1>7, <1>8

-----------------------------------------------------------------------------
\* The initial states.
LEMMA QuotaInitInv == QuotaInit => QuotaInv
<1> SUFFICES ASSUME QuotaInit PROVE QuotaInv
  OBVIOUS
<1>1. 0 \in Month /\ Month \subseteq Nat
  BY QuotaAssumption DEF Month
<1>2. QuotaTypeOK
  <2>1. 0 \in 0..Cost
    BY QuotaAssumption
  <2>2. used \in [Month -> Nat] /\ expires \in [Month -> BOOLEAN]
        /\ global \in [Month -> Nat] /\ free \in [Month -> Nat]
    BY DEF QuotaInit
  <2>3. stage \in [Tracker -> Stages] /\ spent \in [Tracker -> 0..Cost]
        /\ keyMonth \in [Tracker -> Month]
    BY <1>1, <2>1 DEF QuotaInit, Stages
  <2> QED
    BY <1>1, <2>2, <2>3 DEF QuotaInit, QuotaTypeOK
<1>3. UsedBound
  <2>1. \A m \in Month : used[m] = 0
    BY DEF QuotaInit
  <2>2. Cardinality(Rest) <= Bound
    BY RestFinite, BoundNat, CreditsFinite
  <2> QED
    BY <1>1, <2>1, <2>2, RestFinite, BoundNat DEF QuotaInit, UsedBound
<1>4. FreeBound
  BY QuotaAssumption DEF QuotaInit, FreeBound
<1>5. ExpireBound /\ ExpiryExplained
  BY DEF QuotaInit, ExpireBound, ExpiryExplained
<1> QED
  BY <1>2, <1>3, <1>4, <1>5 DEF QuotaInv

\* What a charge of the user changes.
LEMMA ChargeType ==
    ASSUME NEW s \in Tracker, NEW credits \in Nat, QuotaTypeOK, IncrBy(s, credits)
    PROVE  QuotaTypeOK'
<1>1. used' \in [Month -> Nat]
  BY DEF QuotaTypeOK, IncrBy
<1>2. spent' \in [Tracker -> 0..Cost]
  BY QuotaAssumption DEF QuotaTypeOK, IncrBy
<1>3. stage' \in [Tracker -> Stages]
  BY DEF QuotaTypeOK, IncrBy, MoveTo, Stages
<1>4. keyMonth' \in [Tracker -> Month]
  BY DEF QuotaTypeOK, IncrBy
<1> QED
  BY <1>1, <1>2, <1>3, <1>4 DEF QuotaTypeOK, IncrBy

LEMMA GlobalChargeType ==
    ASSUME NEW s \in Tracker, QuotaTypeOK, ChargeGlobalQuota(s)
    PROVE  QuotaTypeOK'
<1>1. /\ month \in Month /\ global \in [Month -> Nat] /\ free \in [Month -> Nat]
      /\ \A m \in Month : global[m] + 1 \in Nat /\ free[m] + 1 \in Nat
  BY DEF QuotaTypeOK
<1>2. /\ global' = [global EXCEPT ![month] = @ + 1]
      /\ free' = free \/ free' = [free EXCEPT ![month] = @ + 1]
  BY DEF ChargeGlobalQuota
<1>3. global' \in [Month -> Nat]
  BY <1>1, <1>2
<1>4. free' \in [Month -> Nat]
  BY <1>1, <1>2
<1>5. stage' \in [Tracker -> Stages]
  BY DEF QuotaTypeOK, ChargeGlobalQuota, MoveTo, Stages
<1> QED
  BY <1>3, <1>4, <1>5 DEF QuotaTypeOK, ChargeGlobalQuota

\* Every step keeps the types.
LEMMA NextType == QuotaTypeOK /\ [QuotaNext]_quotaVars => QuotaTypeOK'
<1> SUFFICES ASSUME QuotaTypeOK, [QuotaNext]_quotaVars PROVE QuotaTypeOK'
  OBVIOUS
<1>0. /\ Pending \subseteq Month
      /\ 0 \in 0..Cost
      /\ \A credits \in 1..Cost : credits \in Nat
      /\ month < MaxMonth => month + 1 \in Month
  BY QuotaAssumption DEF Pending, QuotaTypeOK, Month
<1> USE DEF QuotaTypeOK, counters, MoveTo, Stages
<1>1. ASSUME NEW s \in Tracker, Serve(s) PROVE QuotaTypeOK'
  <2>1. CASE GetQuota(s)
    <3>1. spent' \in [Tracker -> 0..Cost]
      BY <1>0, <2>1 DEF GetQuota
    <3> QED
      BY <2>1, <3>1 DEF GetQuota
  <2>2. CASE ChargeCredits(s)
    <3>1. PICK credits \in 1..Cost : IncrBy(s, credits)
      BY <2>2 DEF ChargeCredits
    <3>2. credits \in Nat
      BY <1>0, <3>1
    <3> QED
      BY <3>1, <3>2, ChargeType
  <2>3. CASE ExpireKey(s)
    BY <2>3 DEF ExpireKey
  <2>4. CASE ExpireFails(s)
    BY <2>4 DEF ExpireFails
  <2>5. CASE ChargeGlobalQuota(s)
    BY <2>5, GlobalChargeType
  <2>6. CASE ExpireGlobal(s)
    BY <2>6 DEF ExpireGlobal
  <2>7. CASE ChargeUser(s)
    BY <2>7, ChargeType, QuotaAssumption DEF ChargeUser
  <2>8. CASE ChargeFails(s)
    BY <2>8 DEF ChargeFails
  <2>9. CASE Leave(s)
    <3>1. spent' \in [Tracker -> 0..Cost]
      BY <1>0, <2>9 DEF Leave
    <3> QED
      BY <2>9, <3>1 DEF Leave
  <2> QED
    BY <1>1, <2>1, <2>2, <2>3, <2>4, <2>5, <2>6, <2>7, <2>8, <2>9 DEF Serve
<1>2. CASE Crash
  <2>1. spent' \in [Tracker -> 0..Cost] /\ stage' \in [Tracker -> Stages]
    BY <1>0, <1>2 DEF Crash
  <2> QED
    BY <1>0, <1>2, <2>1 DEF Crash
<1>3. CASE TurnMonth
  <2>1. month' \in Month
    BY <1>0, <1>3 DEF TurnMonth
  <2> QED
    BY <1>0, <1>3, <2>1 DEF TurnMonth
<1>4. CASE UNCHANGED quotaVars
  BY <1>4 DEF quotaVars
<1> QED
  BY <1>1, <1>2, <1>3, <1>4 DEF QuotaNext

-----------------------------------------------------------------------------
\* A charge moves credits from what may still be charged to what is used.
LEMMA ChargeKeepsUsed ==
    ASSUME NEW s \in Tracker, NEW credits \in Nat,
           QuotaTypeOK, UsedBound, stage[s] \in {"in", "pay"}, IncrBy(s, credits)
    PROVE  UsedBound'
<1>1. Cardinality(Rest') = Cardinality(Rest) - credits
  BY RestCharged
<1>2. month' = month /\ month \in Month /\ used \in [Month -> Nat]
      /\ used' = [used EXCEPT ![month] = @ + credits]
  BY DEF IncrBy, QuotaTypeOK
<1>3. Bound' = Bound
  BY DEF Bound
<1>4. used'[month] + Cardinality(Rest') <= Bound
  BY <1>1, <1>2, RestFinite, BoundNat DEF UsedBound
<1>5. \A m \in Month : m # month => used'[m] = used[m]
  BY <1>2
<1>6. Month \subseteq Nat
  BY DEF Month
<1> QED
  BY <1>2, <1>3, <1>4, <1>5, <1>6 DEF UsedBound

\* Where nothing is charged and no month turns, only a session that enters
\* has more to charge, and it enters while a credit remains.
LEMMA NextUsed == QuotaTypeOK /\ UsedBound /\ [QuotaNext]_quotaVars => UsedBound'
<1> SUFFICES ASSUME QuotaTypeOK, UsedBound, [QuotaNext]_quotaVars PROVE UsedBound'
  OBVIOUS
<1>1. Bound' = Bound /\ Bound \in Nat /\ Cardinality(Tracker) * Cost <= Bound
  BY BoundNat DEF Bound
<1>2. /\ Cardinality(Rest') \in Nat
      /\ Cardinality(Rest') <= Cardinality(Tracker) * Cost
  <2>1. Rest' \in SUBSET (Tracker \X (1..Cost))
    BY DEF Rest
  <2>2. IsFiniteSet(Rest') /\ Cardinality(Rest') <= Cardinality(Tracker \X (1..Cost))
    BY <2>1, CreditsFinite, FS_Subset
  <2> QED
    BY <2>2, CreditsFinite, FS_CardinalityType
<1>3. month \in Month /\ used \in [Month -> Nat] /\ Month \subseteq Nat
  BY DEF QuotaTypeOK, Month
<1>4. ASSUME UNCHANGED <<month, used>>, Rest' \subseteq Rest PROVE UsedBound'
  BY <1>1, <1>2, <1>3, <1>4, RestShrinks, RestFinite DEF UsedBound
<1>5. ASSUME NEW s \in Tracker, NEW where, where # "out",
             stage[s] # "out", MoveTo(s, where), UNCHANGED <<month, used, spent>>
      PROVE  UsedBound'
  <2>1. \A q \in Tracker : stage'[q] # "out" => stage[q] # "out"
    BY <1>5 DEF MoveTo, QuotaTypeOK
  <2>2. Rest' \subseteq Rest
    BY <1>5, <2>1 DEF Rest
  <2> QED
    BY <1>4, <1>5, <2>2
<1>6. ASSUME NEW s \in Tracker, Serve(s) PROVE UsedBound'
  <2>1. CASE GetQuota(s)
    <3>1. used[month] <= MonthlyQuotaCredits - 1 /\ UNCHANGED <<month, used>>
      BY <2>1, <1>3, QuotaAssumption DEF GetQuota, Remaining, counters
    <3>2. used'[month'] + Cardinality(Rest') <= Bound
      BY <3>1, <1>2, <1>3, CreditsFinite, QuotaAssumption DEF Bound
    <3> QED
      BY <1>1, <1>3, <3>1, <3>2 DEF UsedBound
  <2>2. CASE ChargeCredits(s)
    <3>1. PICK credits \in 1..Cost : IncrBy(s, credits)
      BY <2>2 DEF ChargeCredits
    <3>2. credits \in Nat /\ stage[s] = "in"
      BY <2>2, <3>1, QuotaAssumption DEF ChargeCredits
    <3> QED
      BY <3>1, <3>2, ChargeKeepsUsed
  <2>3. CASE ExpireKey(s)
    BY <2>3, <1>5 DEF ExpireKey
  <2>4. CASE ExpireFails(s)
    BY <2>4, <1>5 DEF ExpireFails, counters
  <2>5. CASE ChargeGlobalQuota(s)
    <3>1. \E where \in {"expire global", "in", "pay"} : MoveTo(s, where)
      BY <2>5 DEF ChargeGlobalQuota
    <3> QED
      BY <2>5, <3>1, <1>5 DEF ChargeGlobalQuota
  <2>6. CASE ExpireGlobal(s)
    <3>1. \E where \in {"in", "pay"} : MoveTo(s, where)
      BY <2>6 DEF ExpireGlobal
    <3> QED
      BY <2>6, <3>1, <1>5 DEF ExpireGlobal, counters
  <2>7. CASE ChargeUser(s)
    BY <2>7, ChargeKeepsUsed, QuotaAssumption DEF ChargeUser
  <2>8. CASE ChargeFails(s)
    BY <2>8, <1>5 DEF ChargeFails, counters
  <2>9. CASE Leave(s)
    <3>1. Rest' \subseteq Rest
      <4>1. \A q \in Tracker : stage'[q] # "out" => q # s
        BY <2>9 DEF Leave, MoveTo, QuotaTypeOK
      <4>2. \A q \in Tracker : q # s => stage'[q] = stage[q] /\ spent'[q] = spent[q]
        BY <2>9 DEF Leave, MoveTo, QuotaTypeOK
      <4> QED
        BY <4>1, <4>2 DEF Rest
    <3> QED
      BY <2>9, <3>1, <1>4 DEF Leave, counters
  <2> QED
    BY <1>6, <2>1, <2>2, <2>3, <2>4, <2>5, <2>6, <2>7, <2>8, <2>9 DEF Serve
<1>7. CASE Crash
  <2>1. Rest' \subseteq Rest
    BY <1>7 DEF Crash, Rest
  <2> QED
    BY <1>4, <1>7, <2>1 DEF Crash, counters
<1>8. CASE TurnMonth
  <2>1. month' = month + 1 /\ month' \in Month /\ used' = used
    BY <1>8, QuotaAssumption DEF TurnMonth, counters, QuotaTypeOK, Month
  <2>2. used[month'] = 0
    BY <1>3, <2>1 DEF UsedBound
  <2>3. used'[month'] + Cardinality(Rest') <= Bound'
    <3>1. used'[month'] = 0
      BY <2>1, <2>2
    <3> QED
      BY <1>1, <1>2, <3>1, CreditsFinite
  <2>4. used[month] <= Bound
    BY <1>1, <1>3, RestFinite DEF UsedBound
  <2>5. \A m \in Month : m < month' => m < month \/ m = month
    BY <1>3, <2>1
  <2> QED
    BY <1>1, <1>3, <2>1, <2>3, <2>4, <2>5 DEF UsedBound
<1>9. CASE UNCHANGED quotaVars
  BY <1>4, <1>9 DEF quotaVars, counters, Rest
<1> QED
  BY <1>6, <1>7, <1>8, <1>9 DEF QuotaNext

-----------------------------------------------------------------------------
\* Only a query within the limit is free, and it is counted in the same step.
LEMMA NextFree == QuotaTypeOK /\ FreeBound /\ [QuotaNext]_quotaVars => FreeBound'
<1> SUFFICES ASSUME QuotaTypeOK, FreeBound, [QuotaNext]_quotaVars PROVE FreeBound'
  OBVIOUS
<1>1. ASSUME UNCHANGED <<global, free>> PROVE FreeBound'
  BY <1>1 DEF FreeBound
<1>2. ASSUME NEW s \in Tracker, ChargeGlobalQuota(s) PROVE FreeBound'
  <2>1. /\ month \in Month /\ global \in [Month -> Nat] /\ free \in [Month -> Nat]
        /\ GlobalMax \in Nat
    BY QuotaAssumption DEF QuotaTypeOK
  <2>2. global' = [global EXCEPT ![month] = @ + 1]
    BY <1>2 DEF ChargeGlobalQuota
  <2>3. CASE Within(global[month] + 1)
    <3>1. free' = [free EXCEPT ![month] = @ + 1]
      BY <1>2, <2>3 DEF ChargeGlobalQuota
    <3> QED
      BY <2>1, <2>2, <2>3, <3>1 DEF FreeBound, Within
  <2>4. CASE ~Within(global[month] + 1)
    <3>1. free' = free
      BY <1>2, <2>4 DEF ChargeGlobalQuota
    <3> QED
      BY <2>1, <2>2, <3>1 DEF FreeBound
  <2> QED
    BY <2>3, <2>4
<1>3. ASSUME NEW s \in Tracker, Serve(s) PROVE FreeBound'
  BY <1>1, <1>2, <1>3
  DEF Serve, GetQuota, ChargeCredits, IncrBy, ExpireKey, ExpireFails,
      ExpireGlobal, ChargeUser, ChargeFails, Leave, counters
<1> QED
  BY <1>1, <1>3 DEF QuotaNext, Crash, TurnMonth, quotaVars, counters

\* The first charge of a month is the one that goes on to set the expiry.
LEMMA ChargeKeepsExpiry ==
    ASSUME NEW s \in Tracker, NEW credits \in Nat, QuotaTypeOK, ExpireBound,
           ExpiryExplained, stage[s] \in {"in", "pay"}, IncrBy(s, credits)
    PROVE  ExpireBound' /\ ExpiryExplained'
<1>1. /\ month' = month /\ month \in Month /\ expires' = expires
      /\ immortal' = immortal
      /\ used' = [used EXCEPT ![month] = @ + credits]
      /\ used \in [Month -> Nat]
  BY DEF IncrBy, QuotaTypeOK
<1>2. /\ keyMonth'[s] = month
      /\ \A q \in Tracker : q # s => stage'[q] = stage[q] /\ keyMonth'[q] = keyMonth[q]
  BY DEF IncrBy, MoveTo, QuotaTypeOK
<1>3. used[month] = 0 => stage'[s] = "expire"
  BY <1>1 DEF IncrBy, MoveTo, First, QuotaTypeOK
<1>4. Pending \subseteq Pending'
  <2> SUFFICES ASSUME NEW q \in Tracker, stage[q] = "expire"
               PROVE  keyMonth[q] \in Pending'
    BY DEF Pending
  <2>1. q # s
    OBVIOUS
  <2> QED
    BY <1>2, <2>1 DEF Pending
<1>5. ExpireBound'
  BY <1>1, <1>2 DEF ExpireBound
<1>6. ASSUME NEW m \in Month, used'[m] > 0
      PROVE  expires'[m] \/ m \in Pending' \/ m \in immortal'
  <2>1. CASE used[m] > 0
    BY <1>1, <1>4, <2>1 DEF ExpiryExplained
  <2>2. CASE ~(used[m] > 0)
    <3>1. m = month /\ used[month] = 0
      BY <1>1, <1>6, <2>2
    <3> QED
      BY <1>2, <1>3, <3>1 DEF Pending
  <2> QED
    BY <2>1, <2>2
<1> QED
  BY <1>5, <1>6 DEF ExpiryExplained

\* A counter in use keeps its expiry, or the charge that will set it, or the
\* reason why none is set.
LEMMA NextExpiry ==
    QuotaTypeOK /\ ExpireBound /\ ExpiryExplained /\ [QuotaNext]_quotaVars
        => ExpireBound' /\ ExpiryExplained'
<1> SUFFICES ASSUME QuotaTypeOK, ExpireBound, ExpiryExplained, [QuotaNext]_quotaVars
             PROVE  ExpireBound' /\ ExpiryExplained'
  OBVIOUS
<1>1. ASSUME UNCHANGED <<month, used, expires, keyMonth, immortal>>,
             \A q \in Tracker : stage'[q] = "expire" <=> stage[q] = "expire"
      PROVE  ExpireBound' /\ ExpiryExplained'
  <2>1. Pending' = Pending
    BY <1>1 DEF Pending
  <2> QED
    BY <1>1, <2>1 DEF ExpireBound, ExpiryExplained
<1>2. ASSUME NEW s \in Tracker, NEW where, where # "expire", MoveTo(s, where)
      PROVE  /\ stage'[s] # "expire"
             /\ \A q \in Tracker : q # s => stage'[q] = stage[q]
  BY <1>2 DEF MoveTo, QuotaTypeOK
<1>3. ASSUME NEW s \in Tracker, NEW where, where # "expire",
             stage[s] # "expire", MoveTo(s, where),
             UNCHANGED <<month, used, expires, keyMonth, immortal>>
      PROVE  ExpireBound' /\ ExpiryExplained'
  BY <1>1, <1>2, <1>3
<1>4. ASSUME NEW s \in Tracker, Serve(s)
      PROVE  ExpireBound' /\ ExpiryExplained'
  <2>1. CASE GetQuota(s)
    BY <2>1, <1>3 DEF GetQuota, counters
  <2>2. CASE ChargeCredits(s)
    <3>1. PICK credits \in 1..Cost : IncrBy(s, credits)
      BY <2>2 DEF ChargeCredits
    <3>2. credits \in Nat /\ stage[s] = "in"
      BY <2>2, <3>1, QuotaAssumption DEF ChargeCredits
    <3> QED
      BY <3>1, <3>2, ChargeKeepsExpiry
  <2>3. CASE ExpireKey(s)
    <3>1. /\ UNCHANGED <<month, used, keyMonth, immortal>>
          /\ expires' = IF used[month] > 0 THEN [expires EXCEPT ![month] = TRUE]
                        ELSE expires
          /\ stage[s] = "expire"
      BY <2>3 DEF ExpireKey
    <3>2. /\ stage'[s] # "expire"
          /\ \A q \in Tracker : q # s => stage'[q] = stage[q]
      BY <2>3, <1>2 DEF ExpireKey
    <3>3. ExpireBound'
      BY <3>1, <3>2 DEF ExpireBound
    <3>4. ASSUME NEW m \in Month, used[m] > 0
          PROVE  expires'[m] \/ m \in Pending' \/ m \in immortal
      <4>1. CASE m = month
        BY <3>1, <3>4, <4>1 DEF QuotaTypeOK
      <4>2. CASE m # month
        <5>1. expires[m] => expires'[m]
          BY <3>1, <4>2 DEF QuotaTypeOK
        <5>2. m \in Pending => m \in Pending' \/ m \in immortal
          <6>1. ASSUME NEW q \in Tracker, stage[q] = "expire", m = keyMonth[q]
                PROVE  m \in Pending' \/ m \in immortal
            <7>1. m \in immortal
              BY <4>2, <6>1 DEF ExpireBound
            <7> QED
              BY <7>1
          <6> QED
            BY <6>1 DEF Pending
        <5> QED
          BY <3>4, <5>1, <5>2 DEF ExpiryExplained
      <4> QED
        BY <4>1, <4>2
    <3> QED
      BY <3>1, <3>3, <3>4 DEF ExpiryExplained
  <2>4. CASE ExpireFails(s)
    <3>1. /\ UNCHANGED <<month, used, expires, keyMonth>>
          /\ immortal' = immortal \union {keyMonth[s]}
      BY <2>4 DEF ExpireFails, counters
    <3>2. /\ stage'[s] # "expire"
          /\ \A q \in Tracker : q # s => stage'[q] = stage[q]
      BY <2>4, <1>2 DEF ExpireFails
    <3>3. Pending \subseteq Pending' \union {keyMonth[s]}
      BY <3>1, <3>2 DEF Pending
    <3>4. ExpireBound'
      BY <3>1, <3>2 DEF ExpireBound
    <3> QED
      BY <3>1, <3>3, <3>4 DEF ExpiryExplained
  <2>5. CASE ChargeGlobalQuota(s)
    <3>1. \E where \in {"expire global", "in", "pay"} : MoveTo(s, where)
      BY <2>5 DEF ChargeGlobalQuota
    <3> QED
      BY <2>5, <3>1, <1>3 DEF ChargeGlobalQuota
  <2>6. CASE ExpireGlobal(s)
    <3>1. \E where \in {"in", "pay"} : MoveTo(s, where)
      BY <2>6 DEF ExpireGlobal
    <3> QED
      BY <2>6, <3>1, <1>3 DEF ExpireGlobal, counters
  <2>7. CASE ChargeUser(s)
    BY <2>7, ChargeKeepsExpiry, QuotaAssumption DEF ChargeUser
  <2>8. CASE ChargeFails(s)
    BY <2>8, <1>3 DEF ChargeFails, counters
  <2>9. CASE Leave(s)
    BY <2>9, <1>3 DEF Leave, counters
  <2> QED
    BY <1>4, <2>1, <2>2, <2>3, <2>4, <2>5, <2>6, <2>7, <2>8, <2>9 DEF Serve
<1>5. CASE Crash
  <2>1. \A q \in Tracker : stage'[q] # "expire"
    BY <1>5 DEF Crash
  <2>2. UNCHANGED <<used, expires>> /\ immortal' = immortal \union Pending
    BY <1>5 DEF Crash, counters
  <2> QED
    BY <2>1, <2>2 DEF ExpireBound, ExpiryExplained
<1>6. CASE TurnMonth
  <2>1. /\ UNCHANGED <<used, expires, stage, keyMonth>>
        /\ immortal' = immortal \union Pending
    BY <1>6 DEF TurnMonth, counters
  <2>2. \A q \in Tracker : stage[q] = "expire" => keyMonth[q] \in Pending
    BY DEF Pending
  <2> QED
    BY <2>1, <2>2 DEF ExpireBound, ExpiryExplained
<1>7. CASE UNCHANGED quotaVars
  BY <1>1, <1>7 DEF quotaVars, counters
<1> QED
  BY <1>4, <1>5, <1>6, <1>7 DEF QuotaNext

-----------------------------------------------------------------------------
\* The invariant is inductive: it holds at first, and every step keeps it.
THEOREM QuotaInductive == QuotaSpec => []QuotaInv
<1>1. QuotaInv /\ [QuotaNext]_quotaVars => QuotaInv'
  BY NextType, NextUsed, NextFree, NextExpiry DEF QuotaInv
<1> QED
  BY QuotaInitInv, <1>1, PTL DEF QuotaSpec

\* The counters are numbers, of any sessions and over any number of months: no
\* command takes one below zero.
THEOREM QuotaTypeCorrect == QuotaSpec => []QuotaTypeOK
<1>1. QuotaInv => QuotaTypeOK
  BY DEF QuotaInv
<1> QED
  BY <1>1, QuotaInductive, PTL

\* However many sessions run at once and however they look and charge, a
\* month's quota is overshot by less than they all cost; and no more queries
\* are free than the global quota allows.
THEOREM LimitsAreKept == QuotaSpec => []LimitsKept
<1>1. QuotaInv => LimitsKept
  <2> SUFFICES ASSUME QuotaInv PROVE LimitsKept
    OBVIOUS
  <2>1. month \in Nat /\ Month \subseteq Nat /\ used \in [Month -> Nat]
    BY DEF QuotaInv, QuotaTypeOK, Month
  <2>2. used[month] <= Bound
    BY <2>1, RestFinite, BoundNat DEF QuotaInv, UsedBound, QuotaTypeOK
  <2>3. ASSUME NEW m \in Month PROVE used[m] <= Bound
    <3>1. CASE m < month
      BY <3>1 DEF QuotaInv, UsedBound
    <3>2. CASE m = month
      BY <2>2, <3>2
    <3>3. CASE m > month
      BY <3>3, BoundNat DEF QuotaInv, UsedBound
    <3> QED
      BY <2>1, <3>1, <3>2, <3>3
  <2> QED
    BY <2>3 DEF QuotaInv, FreeBound, LimitsKept, Overshoot, FreeWithinLimit, Bound
<1> QED
  BY <1>1, QuotaInductive, PTL

\* A counter that is in use and will never expire has one of the three reasons
\* and no other.
THEOREM ExpiryIsExplained == QuotaSpec => []ExpiryExplained
<1>1. QuotaInv => ExpiryExplained
  BY DEF QuotaInv
<1> QED
  BY <1>1, QuotaInductive, PTL
=============================================================================
