------------------------- MODULE ConversationProofs -------------------------
(***************************************************************************)
(* Proofs about Conversation: whatever the identifiers, the sizes of the   *)
(* responses and the number of requests, as long as no read of the client  *)
(* ends inside a response, ClientRdCb, which keeps nothing between two     *)
(* calls, and the server's session stay in step.                           *)
(*                                                                         *)
(* The argument is that the conversation alternates: at most one message   *)
(* is under way, as a request in the socket, as the session's event, or as *)
(* the last response of the stream, which then starts where the client     *)
(* will read next; and what that message says fits what the session keeps. *)
(***************************************************************************)
EXTENDS Conversation, SequenceTheorems, TLAPS

Codes == {"none", "kSuccess", "kInvalidData"}

Sessions == [state : {"none", "WAITING_REQUEST", "HANDLING"},
             identifier : Identifiers \cup {0}, phone : BOOLEAN]

Response == [start : Nat, type : {"kPhoneRes", "kLoginRes"}, size : Nat, total : Nat,
             identifier : Identifiers \cup {0}, code : Codes]

(* The responses lie end to end in the stream, up to `sent'. *)
Layout ==
  /\ responses \in Seq(Response) /\ sent \in Nat
  /\ \A i \in 1..Len(responses) :
       /\ responses[i].total = HeaderSize + responses[i].size
       /\ responses[i].start + responses[i].total <= sent
  /\ \A i, j \in 1..Len(responses) :
       i < j => responses[i].start + responses[i].total <= responses[j].start
  /\ Len(responses) > 0 =>
       responses[Len(responses)].start + responses[Len(responses)].total = sent

(* A message that fits the session: a login carries, and a phone response  *)
(* brings, the identifier that the session keeps, and a login response     *)
(* accepts.                                                                *)
Fits(e) ==
  /\ e.type \in {"kPhoneReq", "kLoginReq", "kPhoneRes", "kLoginRes"}
  /\ e.type \in {"kLoginReq", "kPhoneRes"} =>
       session.phone = TRUE /\ e.identifier = session.identifier
  /\ e.type = "kLoginRes" => e.code = "kSuccess"

(* The four places of the message under way: written by the client, with   *)
(* the server, written by the server, nowhere.                             *)
Written ==
  /\ Len(inbox) = 1 /\ Fits(inbox[1])
  /\ event = NoEvent /\ session.state = "WAITING_REQUEST" /\ arrived = sent

Handled ==
  /\ inbox = <<>> /\ Fits(event)
  /\ session.state = "HANDLING" /\ arrived = sent

Answered ==
  /\ inbox = <<>> /\ event = NoEvent /\ session.state = "WAITING_REQUEST"
  /\ arrived < sent /\ Len(responses) > 0
  /\ responses[Len(responses)].start = arrived /\ Fits(responses[Len(responses)])

Over ==
  /\ inbox = <<>> /\ event = NoEvent /\ session.state = "WAITING_REQUEST"
  /\ arrived = sent

(* Nothing happened yet. *)
Fresh ==
  /\ wrote = 0 /\ told = {} /\ inbox = <<>> /\ held = <<>>
  /\ session = NoSession /\ event = NoEvent /\ responses = <<>>
  /\ sent = 0 /\ arrived = 0 /\ pos = 0

Alternation ==
  split = FALSE =>
    /\ client # "talking" => Fresh
    /\ client = "talking" =>
         /\ pos = arrived /\ held = <<>> /\ told \subseteq {"kSuccess"}
         /\ Written \/ Handled \/ Answered \/ Over

TalkInv ==
  /\ TypeOK
  /\ Layout
  /\ client = "connecting" => split = FALSE
  /\ Alternation

-----------------------------------------------------------------------------
(* The sessions that ReqCallback leaves are well typed. *)
LEMMA SessionStates ==
  /\ NoSession \in Sessions /\ NewSession \in Sessions
  /\ \A s \in Sessions : [s EXCEPT !.state = "HANDLING"] \in Sessions
<1>1. NoSession \in Sessions /\ NewSession \in Sessions
  BY Zenon DEF NoSession, NewSession, Sessions
<1>2. \A s \in Sessions : [s EXCEPT !.state = "HANDLING"] \in Sessions
  BY DEF Sessions
<1> QED BY <1>1, <1>2

(* The conversation starts in the invariant. *)
LEMMA InitTalk == Init => TalkInv
<1> SUFFICES ASSUME Init PROVE TalkInv
  OBVIOUS
<1>1. NoEvent \in Event
  BY DEF NoEvent, Event
<1>2. TypeOK
  <2>1. session \in Sessions
    BY SessionStates DEF Init
  <2>2. wrote \in 0..MaxRequests /\ pos \in 0..arrived /\ arrived \in 0..sent
    BY ConversationAssumption DEF Init
  <2> QED BY <1>1, <2>1, <2>2, EmptySeq DEF Init, TypeOK, Sessions
<1>3. Layout
  BY EmptySeq DEF Init, Layout
<1>4. Fresh /\ client = "connecting" /\ split = FALSE
  BY DEF Init, Fresh
<1> QED BY <1>2, <1>3, <1>4 DEF TalkInv, Alternation

(* ReqCallback of a session that waits, in step with its client, takes the *)
(* one request there is; any other call of it means that a response was    *)
(* cut.                                                                    *)
LEMMA ReqCallbackPreserves ==
  ASSUME TalkInv, ReqCallback
  PROVE  TalkInv'
<1>1. PICK k \in 1..Len(inbox) :
        LET input == held \o SubSeq(inbox, 1, k) IN
        /\ inbox' = SubSeq(inbox, k + 1, Len(inbox))
        /\ \/ /\ session.state = "HANDLING"
              /\ session' = NoSession /\ held' = <<>> /\ UNCHANGED event
           \/ /\ session.state = "WAITING_REQUEST"
              /\ session' = [session EXCEPT !.state = "HANDLING"]
              /\ event' = Head(input) /\ held' = Tail(input)
  BY DEF ReqCallback
<1> DEFINE front == SubSeq(inbox, 1, k)
           input == held \o front
<1>2. UNCHANGED <<clientVars, responses, sent>>
  BY DEF ReqCallback
<1>3. inbox \in Seq(Event) /\ held \in Seq(Event) /\ Len(inbox) \in Nat /\ k \in Int
  BY LenProperties DEF TalkInv, TypeOK
<1>4. front \in Seq(Event) /\ Len(front) = k /\ front[1] = inbox[1]
  <2>1. \A i \in 1..k : inbox[i] \in Event
    BY <1>3, ElementOfSeq
  <2> QED BY <1>3, <2>1, SubSeqProperties
<1>5. inbox' \in Seq(Event) /\ (Len(inbox) = 1 => inbox' = <<>>)
  <2>1. \A i \in (k + 1)..Len(inbox) : inbox[i] \in Event
    BY <1>3, ElementOfSeq
  <2>2. inbox' \in Seq(Event)
    BY <1>1, <1>3, <2>1, SubSeqProperties
  <2>3. Len(inbox) = 1 => inbox' = <<>>
    BY <1>1, <1>3, SubSeqEmpty
  <2> QED BY <2>2, <2>3
<1> HIDE DEF front
<1>6. input \in Seq(Event) /\ input # <<>> /\ Len(input) \in Nat
      /\ (held = <<>> => input = front)
  <2>1. input \in Seq(Event) /\ Len(input) = Len(held) + k /\ Len(held) \in Nat
    BY <1>3, <1>4, ConcatProperties, LenProperties
  <2>2. held = <<>> => input = front
    BY <1>4, ConcatEmptySeq
  <2> QED BY <2>1, <2>2, EmptySeq, <1>3
<1> HIDE DEF input
<1>7. /\ Head(input) \in Event /\ Tail(input) \in Seq(Event)
      /\ Head(input) = input[1]
      /\ Len(input) = 1 => Tail(input) = <<>>
  <2>1. Head(input) \in Event /\ Tail(input) \in Seq(Event)
        /\ Len(Tail(input)) = Len(input) - 1
    BY <1>6, HeadTailProperties
  <2>2. Len(input) = 1 => Tail(input) = <<>>
    BY <2>1, EmptySeq
  <2>3. Head(input) = input[1]
    BY <1>6
  <2> QED BY <2>1, <2>2, <2>3
<1>8. \/ session.state = "HANDLING" /\ session' = NoSession
         /\ held' = <<>> /\ event' = event
      \/ session.state = "WAITING_REQUEST"
         /\ session' = [session EXCEPT !.state = "HANDLING"]
         /\ event' = Head(input) /\ held' = Tail(input)
  BY <1>1 DEF input, front
<1>9. TypeOK'
  <2>1. event \in Event /\ <<>> \in Seq(Event)
    BY EmptySeq DEF TalkInv, TypeOK
  <2>2. session' \in Sessions
    BY <1>8, SessionStates DEF TalkInv, TypeOK, Sessions
  <2>3. event' \in Event /\ held' \in Seq(Event)
    BY <1>7, <1>8, <2>1
  <2> QED BY <1>2, <1>5, <2>2, <2>3 DEF TalkInv, TypeOK, Sessions, clientVars
<1>10. Layout' /\ (client' = "connecting" => split' = FALSE)
  BY <1>2 DEF TalkInv, Layout, clientVars
<1>11. Alternation'
  <2> SUFFICES ASSUME split = FALSE
               PROVE  /\ client # "talking" => Fresh'
                      /\ client = "talking" =>
                           /\ pos' = arrived' /\ held' = <<>> /\ told' \subseteq {"kSuccess"}
                           /\ Handled'
    BY <1>2 DEF Alternation, clientVars
  <2>1. client = "talking"
    <3>1. Len(inbox) # 0
      BY <1>3
    <3> QED BY <3>1, EmptySeq DEF TalkInv, Alternation, Fresh
  <2>2. Len(inbox) = 1 /\ Fits(inbox[1]) /\ session.state = "WAITING_REQUEST"
        /\ held = <<>> /\ pos = arrived /\ arrived = sent /\ told \subseteq {"kSuccess"}
    <3>1. inbox # <<>>
      BY <1>3, EmptySeq
    <3> QED BY <2>1, <3>1
            DEF TalkInv, Alternation, Written, Handled, Answered, Over
  <2>3. event' = inbox[1] /\ held' = <<>> /\ inbox' = <<>>
        /\ session' = [session EXCEPT !.state = "HANDLING"]
    <3>1. k = 1 /\ Len(input) = 1 /\ input = front
      BY <1>3, <1>4, <1>6, <2>2
    <3> QED BY <1>4, <1>5, <1>7, <1>8, <2>2, <3>1
  <2>4. /\ session'.state = "HANDLING" /\ session'.phone = session.phone
        /\ session'.identifier = session.identifier
    BY <2>3 DEF TalkInv, TypeOK
  <2>5. Fits(event)'
    BY <2>2, <2>3, <2>4 DEF Fits
  <2> QED BY <1>2, <2>1, <2>2, <2>3, <2>4, <2>5 DEF Handled, clientVars
<1> QED BY <1>9, <1>10, <1>11 DEF TalkInv

(* The handlers answer the session's request with what it keeps, or a      *)
(* deleted session's with anything.                                        *)
LEMMA HandlersPreserve ==
  ASSUME TalkInv, HandlePhone \/ HandleLogin
  PROVE  TalkInv'
<1>1. UNCHANGED <<clientVars, inbox, held, responses, sent>>
  BY DEF HandlePhone, HandleLogin
<1>2. /\ session' \in Sessions
      /\ session'.state = session.state
      /\ event' \in Event
      /\ session.state # "none" /\ Fits(event) => Fits(event)'
  <2>1. CASE HandlePhone
    <3>1. PICK i \in Identifiers :
            /\ session' = IF Deleted THEN session
                          ELSE [session EXCEPT !.identifier = i, !.phone = TRUE]
            /\ event' = EvPhoneRes(i, "kSuccess")
      BY <2>1 DEF HandlePhone
    <3>2. event' \in Event
      BY <3>1 DEF Event, EvPhoneRes, EventTypes
    <3>3. CASE session.state = "none"
      BY <3>1, <3>2, <3>3 DEF TalkInv, TypeOK, Sessions, Deleted
    <3>4. CASE session.state # "none"
      BY <3>1, <3>2, <3>4 DEF TalkInv, TypeOK, Sessions, EvPhoneRes, Fits, Deleted
    <3> QED BY <3>3, <3>4
  <2>2. CASE HandleLogin
    <3>1. event.type = "kLoginReq" /\ session' = session
      BY <2>2 DEF HandleLogin
    <3>2. PICK phone \in Loaded(session.phone, BOOLEAN),
               i \in Loaded(session.identifier, Identifiers \cup {0}) :
            event' = EvLoginRes(IF phone /\ i = event.identifier
                                THEN "kSuccess" ELSE "kInvalidData")
      BY <2>2 DEF HandleLogin
    <3>3. event' \in Event /\ event'.type = "kLoginRes"
      BY <3>2 DEF Event, EvLoginRes, EventTypes
    <3>4. ASSUME session.state # "none", Fits(event)
          PROVE  Fits(event)'
      <4>1. phone = session.phone /\ i = session.identifier
        BY <3>2, <3>4 DEF Loaded, Deleted
      <4>2. session.phone = TRUE /\ event.identifier = session.identifier
        BY <3>1, <3>4 DEF Fits
      <4>3. event'.code = "kSuccess"
        BY <3>2, <4>1, <4>2 DEF EvLoginRes
      <4> QED BY <3>3, <4>3 DEF Fits
    <3> QED BY <3>1, <3>3, <3>4 DEF TalkInv, TypeOK, Sessions
  <2> QED BY <2>1, <2>2
<1>3. event # NoEvent
  <2>1. event.type \in {"kPhoneReq", "kLoginReq"}
    BY DEF HandlePhone, HandleLogin
  <2> QED BY <2>1 DEF NoEvent
<1>4. Alternation'
  BY <1>1, <1>2, <1>3
     DEF TalkInv, Alternation, Fresh, Written, Handled, Answered, Over, clientVars
<1>5. TypeOK'
  BY <1>1, <1>2 DEF TalkInv, TypeOK, Sessions, clientVars
<1>6. Layout' /\ (client' = "connecting" => split' = FALSE)
  BY <1>1 DEF TalkInv, Layout, clientVars
<1> QED BY <1>4, <1>5, <1>6 DEF TalkInv

(* handle_results appends the response to the stream, where the client,    *)
(* having taken everything before it, reads next.                          *)
LEMMA AnswerPreserves ==
  ASSUME TalkInv, HandleResult, ~Deleted
  PROVE  TalkInv'
<1>1. /\ event.type \in {"kPhoneRes", "kLoginRes"}
      /\ responses' = Append(responses, Unpack(event))
      /\ sent' = sent + Unpack(event).total
      /\ event' = NoEvent
      /\ session' = [session EXCEPT !.state = "WAITING_REQUEST"]
      /\ UNCHANGED <<clientVars, inbox, held>>
  BY Zenon DEF HandleResult
<1> DEFINE r == Unpack(event)
<1>2. /\ r \in Response /\ r.start = sent /\ r.total = HeaderSize + r.size
      /\ r.total \in Nat \ {0}
      /\ r.type = event.type /\ r.identifier = event.identifier /\ r.code = event.code
  BY <1>1, HeaderSizeAssumption, ConversationAssumption
     DEF Unpack, ByteSize, Response, TalkInv, TypeOK, Layout, Event, Codes
<1> HIDE DEF r
<1>3. /\ responses' = Append(responses, r) /\ sent' = sent + r.total
      /\ responses \in Seq(Response) /\ Len(responses) \in Nat /\ sent \in Nat
  BY <1>1, LenProperties DEF r, TalkInv, Layout
<1>4. /\ responses' \in Seq(Response) /\ Len(responses') = Len(responses) + 1
      /\ \A i \in 1..Len(responses) : responses'[i] = responses[i]
      /\ responses'[Len(responses')] = r
  BY <1>2, <1>3
<1>5. Layout'
  <2>1. \A i \in 1..Len(responses) :
          /\ responses[i].total = HeaderSize + responses[i].size
          /\ responses[i].start + responses[i].total <= sent
          /\ responses[i].start \in Nat /\ responses[i].total \in Nat
    <3>1. \A i \in 1..Len(responses) : responses[i] \in Response
      BY <1>3, ElementOfSeq
    <3> QED BY <3>1 DEF TalkInv, Layout, Response
  <2>2. \A i \in 1..Len(responses') :
          /\ responses'[i].total = HeaderSize + responses'[i].size
          /\ responses'[i].start + responses'[i].total <= sent'
    <3> SUFFICES ASSUME NEW i \in 1..Len(responses')
                 PROVE  /\ responses'[i].total = HeaderSize + responses'[i].size
                        /\ responses'[i].start + responses'[i].total <= sent'
      OBVIOUS
    <3>1. CASE i = Len(responses')
      BY <3>1, <1>2, <1>3, <1>4
    <3>2. CASE i \in 1..Len(responses)
      BY <3>2, <2>1, <1>2, <1>3, <1>4
    <3> QED BY <3>1, <3>2, <1>3, <1>4
  <2>3. \A i, j \in 1..Len(responses') :
          i < j => responses'[i].start + responses'[i].total <= responses'[j].start
    <3> SUFFICES ASSUME NEW i \in 1..Len(responses'), NEW j \in 1..Len(responses'), i < j
                 PROVE  responses'[i].start + responses'[i].total <= responses'[j].start
      OBVIOUS
    <3>1. i \in 1..Len(responses)
      BY <1>3, <1>4
    <3>2. CASE j = Len(responses')
      BY <3>1, <3>2, <2>1, <1>2, <1>4
    <3>3. CASE j \in 1..Len(responses)
      BY <3>1, <3>3, <1>4 DEF TalkInv, Layout
    <3> QED BY <3>2, <3>3, <1>3, <1>4
  <2>4. responses'[Len(responses')].start + responses'[Len(responses')].total = sent'
    BY <1>2, <1>3, <1>4
  <2>5. sent' \in Nat
    BY <1>2, <1>3
  <2> QED BY <1>4, <2>2, <2>3, <2>4, <2>5 DEF Layout
<1>6. TypeOK'
  <2>1. arrived' \in 0..sent'
    BY <1>1, <1>2, <1>3 DEF TalkInv, TypeOK, clientVars
  <2>2. NoEvent \in Event
    BY DEF NoEvent, Event
  <2> QED BY <1>1, <2>1, <2>2 DEF TalkInv, TypeOK, clientVars
<1>7. Alternation'
  <2> SUFFICES ASSUME split = FALSE
               PROVE  /\ client # "talking" => Fresh'
                      /\ client = "talking" =>
                           /\ pos' = arrived' /\ held' = <<>> /\ told' \subseteq {"kSuccess"}
                           /\ Answered'
    BY <1>1 DEF Alternation, clientVars
  <2>1. event # NoEvent
    BY <1>1 DEF NoEvent
  <2>2. /\ client = "talking" /\ pos = arrived /\ held = <<>> /\ told \subseteq {"kSuccess"}
        /\ inbox = <<>> /\ Fits(event) /\ arrived = sent
    BY <2>1 DEF TalkInv, Alternation, Fresh, Written, Handled, Answered, Over
  <2>3. /\ session'.state = "WAITING_REQUEST" /\ session'.phone = session.phone
        /\ session'.identifier = session.identifier
    BY <1>1 DEF TalkInv, TypeOK
  <2>4. Fits(responses[Len(responses)])'
    BY <1>1, <1>2, <1>4, <2>2, <2>3 DEF Fits
  <2>5. arrived' < sent' /\ Len(responses') > 0
        /\ responses'[Len(responses')].start = arrived'
    BY <1>1, <1>2, <1>3, <1>4, <2>2 DEF clientVars
  <2> QED BY <1>1, <2>2, <2>3, <2>4, <2>5 DEF Answered, clientVars
<1> QED BY <1>1, <1>5, <1>6, <1>7 DEF TalkInv, clientVars

(* The result of a deleted session is dropped; as a response was cut then, *)
(* nothing is claimed of the two sides any more.                           *)
LEMMA HandleResultPreserves ==
  ASSUME TalkInv, HandleResult
  PROVE  TalkInv'
<1>1. CASE ~Deleted
  BY <1>1, AnswerPreserves
<1>2. CASE Deleted
  <2>1. /\ event.type \in {"kPhoneRes", "kLoginRes"} /\ event' = NoEvent
        /\ UNCHANGED <<responses, sent, session>>
        /\ UNCHANGED <<clientVars, inbox, held>>
    BY <1>2, Zenon DEF HandleResult
  <2>2. TypeOK'
    <3>1. NoEvent \in Event
      BY DEF NoEvent, Event
    <3> QED BY <2>1, <3>1 DEF TalkInv, TypeOK, clientVars
  <2>3. Layout' /\ (client' = "connecting" => split' = FALSE)
    BY <2>1 DEF TalkInv, Layout, clientVars
  <2>4. split # FALSE
    <3>1. event # NoEvent /\ session.state = "none"
      BY <1>2, <2>1 DEF NoEvent, Deleted
    <3> QED BY <3>1 DEF TalkInv, Alternation, Fresh, Written, Handled, Answered, Over
  <2>5. Alternation'
    BY <2>1, <2>4 DEF Alternation, clientVars
  <2> QED BY <2>2, <2>3, <2>5 DEF TalkInv
<1> QED BY <1>1, <1>2

-----------------------------------------------------------------------------
(* Connecting makes the session and writes the phone request; failing, or  *)
(* ending later, leaves everything as it is.                               *)
LEMMA ConnectedPreserves ==
  ASSUME TalkInv, Connected
  PROVE  TalkInv'
<1> DEFINE r == Request("kPhoneReq", 0)
<1>1. /\ client = "connecting" /\ client' = "talking" /\ session' = NewSession
      /\ inbox' = Append(inbox, r) /\ wrote' = wrote + 1
      /\ UNCHANGED <<told, arrived, pos, split, held, event, responses, sent>>
  BY DEF Connected, Write
<1>2. Fresh /\ split = FALSE
  BY <1>1 DEF TalkInv, Alternation
<1>3. r \in Event /\ r.type = "kPhoneReq"
  BY DEF Request, Event, EventTypes
<1> HIDE DEF r
<1>4. inbox' = <<r>> /\ inbox' \in Seq(Event) /\ Len(inbox') = 1 /\ inbox'[1] = r
  BY <1>1, <1>2, <1>3 DEF Fresh
<1>5. TypeOK'
  <2>1. wrote' \in 0..MaxRequests
    BY <1>1, <1>2, ConversationAssumption DEF Fresh
  <2>2. session' \in Sessions
    BY <1>1, SessionStates
  <2> QED BY <1>1, <1>4, <2>1, <2>2 DEF TalkInv, TypeOK, Sessions
<1>6. Layout'
  BY <1>1 DEF TalkInv, Layout
<1>7. Alternation'
  <2>1. Fits(inbox[1])'
    BY <1>3, <1>4 DEF Fits
  <2>2. session'.state = "WAITING_REQUEST"
    BY <1>1 DEF NewSession
  <2>3. Written'
    BY <1>1, <1>2, <1>4, <2>1, <2>2 DEF Written, Fresh
  <2> QED BY <1>1, <1>2, <2>3 DEF Alternation, Fresh
<1> QED BY <1>1, <1>5, <1>6, <1>7 DEF TalkInv

(* The client ends only before it connected, or when a response was cut. *)
LEMMA EndPreserves ==
  ASSUME TalkInv, ConnectError \/ Eof \/ AllocationFails
  PROVE  TalkInv'
<1>1. /\ client' = "ended"
      /\ UNCHANGED <<wrote, told, arrived, pos, split, inbox, held, session, event,
                     responses, sent>>
  BY DEF ConnectError, Eof, AllocationFails
<1>2. TypeOK'
  BY <1>1 DEF TalkInv, TypeOK
<1>3. Layout'
  BY <1>1 DEF TalkInv, Layout
<1>4. split = FALSE => client = "connecting"
  <2>1. CASE ConnectError
    BY <2>1 DEF ConnectError
  <2>2. CASE Eof
    BY <2>2 DEF Eof, TalkInv, Alternation, Written, Handled, Answered, Over
  <2>3. CASE AllocationFails
    <3> SUFFICES ASSUME split = FALSE PROVE FALSE
      OBVIOUS
    <3>1. client = "talking" /\ arrived < sent /\ HeaderAt(responses, pos) = {}
      BY <2>3 DEF AllocationFails
    <3>2. arrived \in Nat /\ sent \in Nat
      BY DEF TalkInv, TypeOK, Layout
    <3>3. pos = arrived /\ Answered
      BY <3>1, <3>2 DEF TalkInv, Alternation, Written, Handled, Over
    <3>4. Len(responses) \in HeaderAt(responses, pos)
      BY <3>3, LenProperties DEF Answered, HeaderAt, TalkInv, Layout
    <3> QED BY <3>1, <3>4
  <2> QED BY <2>1, <2>2, <2>3
<1>5. Alternation'
  BY <1>1, <1>4 DEF TalkInv, Alternation, Fresh
<1> QED BY <1>1, <1>2, <1>3, <1>5 DEF TalkInv

(* What one call of ClientRdCb takes stays within what is there. *)
LEMMA ReadFits ==
  ASSUME NEW want \in Nat, NEW there \in Nat
  PROVE  BytesRead(want, there) \in 0..there
  BY DEF BytesRead

(* In step, the response that arrived whole is the last one, and it is     *)
(* what the client takes: its type, its length and its message.            *)
LEMMA WholeResponse ==
  ASSUME TalkInv, client = "talking", split = FALSE,
         NEW n \in (arrived + 1)..sent, AtEnd(n)
  PROVE  LET r == responses[Len(responses)]
             head == BytesRead(HeaderSize, n - pos)
         IN  /\ Answered /\ r \in Response /\ n = sent /\ pos = arrived
             /\ head = HeaderSize /\ n - pos = HeaderSize + r.size
             /\ Headers(head, n - pos - head) = {[type |-> r.type, size |-> r.size]}
             /\ Messages(HeaderSize + r.size) =
                  {[identifier |-> r.identifier, code |-> r.code]}
<1> DEFINE last == Len(responses)
           r == responses[last]
           head == BytesRead(HeaderSize, n - pos)
<1>1. /\ arrived \in Nat /\ sent \in Nat /\ responses \in Seq(Response)
      /\ last \in Nat /\ n \in Nat /\ arrived < n /\ n <= sent
  BY LenProperties DEF TalkInv, TypeOK, Layout
<1>2. Answered /\ pos = arrived
  BY <1>1 DEF TalkInv, Alternation, Written, Handled, Over
<1>3. last \in 1..Len(responses) /\ r \in Response /\ r.start = arrived
  BY <1>1, <1>2, ElementOfSeq DEF Answered
<1>4. \A i \in 1..last : responses[i] \in Response
  BY <1>1, ElementOfSeq
<1>5. \A i \in 1..last : i # last =>
        /\ responses[i].start + responses[i].total <= arrived
        /\ responses[i].start < arrived
  <2> SUFFICES ASSUME NEW i \in 1..last, i # last
               PROVE  /\ responses[i].start + responses[i].total <= arrived
                      /\ responses[i].start < arrived
    OBVIOUS
  <2>1. responses[i].start + responses[i].total <= r.start
    BY <1>1, <1>3 DEF TalkInv, Layout
  <2>2. responses[i].start \in Nat /\ responses[i].total \in Nat /\ responses[i].size \in Nat
        /\ responses[i].total = HeaderSize + responses[i].size
    BY <1>4 DEF Response, TalkInv, Layout
  <2>3. responses[i].total > 0
    BY <2>2, HeaderSizeAssumption
  <2> HIDE DEF r
  <2> QED BY <2>1, <2>2, <2>3, <1>1, <1>3
<1>6. r.start + r.total = sent /\ r.total = HeaderSize + r.size /\ r.size \in Nat
      /\ r.total \in Nat
  BY <1>3 DEF TalkInv, Layout, Response
<1>7. n = sent
  <2>1. PICK i \in 1..last : responses[i].start + responses[i].total = n
    BY DEF AtEnd
  <2>2. i = last
    BY <2>1, <1>1, <1>5
  <2> QED BY <2>1, <2>2, <1>6
<1>8. n - pos = HeaderSize + r.size /\ head = HeaderSize
  BY <1>1, <1>2, <1>3, <1>6, <1>7, HeaderSizeAssumption DEF BytesRead
<1>9. HeaderAt(responses, pos) = {last}
  BY <1>1, <1>2, <1>3, <1>5 DEF HeaderAt
<1> HIDE DEF r, last
<1>10. Headers(HeaderSize, n - pos - HeaderSize) = {[type |-> r.type, size |-> r.size]}
  <2>1. (CHOOSE i \in {last} : TRUE) = last
    OBVIOUS
  <2>2. HeaderSize > 4 /\ HeaderSize > 6
    BY HeaderSizeAssumption, ConversationAssumption
  <2> QED BY <1>9, <2>1, <2>2 DEF Headers, r
<1>11. Messages(HeaderSize + r.size) = {[identifier |-> r.identifier, code |-> r.code]}
  <2>1. {i \in HeaderAt(responses, pos) :
           HeaderSize + r.size = HeaderSize + responses[i].size} = {last}
    BY <1>9 DEF r
  <2> QED BY <2>1 DEF Messages, r
<1> QED BY <1>2, <1>3, <1>7, <1>8, <1>10, <1>11 DEF r, last

(* What ClientRdCb may believe is well typed, wherever it reads. *)
LEMMA ReadTypes ==
  ASSUME TalkInv, NEW h, NEW rest \in Nat
  PROVE  /\ \A x \in Headers(h, rest) : x.size \in Nat
         /\ \A m \in Messages(h) : m.identifier \in Identifiers \cup {0} /\ m.code \in Codes
<1>1. \A i \in 1..Len(responses) : responses[i] \in Response
  BY ElementOfSeq DEF TalkInv, Layout
<1>2. \A x \in Headers(h, rest) : x.size \in Nat
  <2>1. CASE HeaderAt(responses, pos) = {}
    BY <2>1 DEF Headers
  <2>2. CASE HeaderAt(responses, pos) # {}
    <3> DEFINE c == CHOOSE i \in HeaderAt(responses, pos) : TRUE
    <3>1. c \in HeaderAt(responses, pos)
      BY <2>2
    <3>2. responses[c] \in Response
      BY <3>1, <1>1 DEF HeaderAt
    <3> HIDE DEF c
    <3>3. Headers(h, rest) =
            {[type |-> IF h > 4 THEN responses[c].type ELSE "kUnknown",
              size |-> IF h > 6 THEN responses[c].size ELSE 0]}
      BY <2>2 DEF Headers, c
    <3> QED BY <3>2, <3>3 DEF Response
  <2> QED BY <2>1, <2>2
<1>3. \A m \in Messages(h) : m.identifier \in Identifiers \cup {0} /\ m.code \in Codes
  <2>1. \A i \in HeaderAt(responses, pos) :
          responses[i].identifier \in Identifiers \cup {0} /\ responses[i].code \in Codes
    BY <1>1 DEF HeaderAt, Response
  <2> QED BY <2>1 DEF Messages, Codes
<1> QED BY <1>2, <1>3

(* ClientRdCb, in step: the response is taken whole, and the login request *)
(* it may cause carries the session's identifier.                          *)
LEMMA ClientRdCbPreserves ==
  ASSUME TalkInv, NEW n \in 1..sent, ClientRdCb(n)
  PROVE  TalkInv'
<1> DEFINE head == BytesRead(HeaderSize, n - pos)
           rest == n - pos - head
           r == responses[Len(responses)]
<1>1. /\ client = "talking" /\ n \in (arrived + 1)..sent /\ arrived' = n
      /\ split' = (split \/ ~AtEnd(n))
      /\ UNCHANGED <<client, held, session, event, responses, sent>>
  BY DEF ClientRdCb
<1>2. PICK h \in Headers(head, rest) :
        LET taken == head + BytesRead(h.size, rest) IN
        /\ pos' = pos + taken
        /\ \/ /\ h.type = "kPhoneRes" /\ wrote < MaxRequests
              /\ \E m \in Messages(taken) : Write(Request("kLoginReq", m.identifier))
              /\ UNCHANGED told
           \/ /\ h.type = "kLoginRes"
              /\ told' \in {told \cup {m.code} : m \in Messages(taken)}
              /\ UNCHANGED <<inbox, wrote>>
           \/ /\ h.type = "kUnknown"
              /\ UNCHANGED <<told, inbox, wrote>>
  BY DEF ClientRdCb
<1> DEFINE taken == head + BytesRead(h.size, rest)
<1>3. /\ pos \in Nat /\ arrived \in Nat /\ pos <= arrived /\ sent \in Nat
      /\ wrote \in Nat /\ MaxRequests \in Nat /\ split \in BOOLEAN
      /\ inbox \in Seq(Event) /\ Len(inbox) \in Nat
  BY LenProperties, ConversationAssumption DEF TalkInv, TypeOK, Layout
<1>4. n \in Nat /\ arrived < n /\ n <= sent /\ n - pos \in Nat
  BY <1>1, <1>3
<1>5. head \in 0..(n - pos) /\ rest \in Nat
  <2>1. head \in 0..(n - pos)
    BY <1>4, ReadFits, HeaderSizeAssumption
  <2> HIDE DEF head
  <2> QED BY <1>3, <1>4, <2>1
<1>6. h.size \in Nat
  BY <1>5, ReadTypes
<1>7. taken \in 0..(n - pos)
  <2>1. BytesRead(h.size, rest) \in 0..rest
    BY <1>5, <1>6, ReadFits
  <2>2. \A b \in 0..rest : head + b \in 0..(n - pos)
    <3> HIDE DEF head
    <3> QED BY <1>3, <1>4, <1>5
  <2> QED BY <2>1, <2>2
<1> HIDE DEF head, rest
<1>8. /\ pos' = pos + taken
      /\ \/ /\ h.type = "kPhoneRes" /\ wrote < MaxRequests
            /\ \E m \in Messages(taken) : Write(Request("kLoginReq", m.identifier))
            /\ told' = told
         \/ /\ h.type = "kLoginRes"
            /\ \E m \in Messages(taken) : told' = told \cup {m.code}
            /\ inbox' = inbox /\ wrote' = wrote
         \/ /\ h.type = "kUnknown"
            /\ told' = told /\ inbox' = inbox /\ wrote' = wrote
  BY <1>2
<1>9. \A m \in Messages(taken) : m.identifier \in Identifiers \cup {0} /\ m.code \in Codes
  BY ReadTypes, <1>5
<1> HIDE DEF taken
<1>10. TypeOK'
  <2>1. inbox' \in Seq(Event) /\ wrote' \in 0..MaxRequests
    <3>1. CASE h.type = "kPhoneRes"
      <4>1. PICK m \in Messages(taken) : Write(Request("kLoginReq", m.identifier))
        BY <1>8, <3>1
      <4>2. Request("kLoginReq", m.identifier) \in Event
        BY <1>9, <4>1 DEF Request, Event, EventTypes
      <4>3. inbox' = Append(inbox, Request("kLoginReq", m.identifier)) /\ wrote' = wrote + 1
        BY <4>1 DEF Write
      <4>4. inbox' \in Seq(Event)
        BY <1>3, <4>2, <4>3, AppendProperties
      <4> QED BY <1>3, <1>8, <3>1, <4>3, <4>4
    <3>2. CASE h.type # "kPhoneRes"
      BY <1>8, <3>2 DEF TalkInv, TypeOK
    <3> QED BY <3>1, <3>2
  <2>2. told' \subseteq Codes
    BY <1>8, <1>9 DEF TalkInv, TypeOK, Codes
  <2>3. pos' \in 0..arrived' /\ arrived' \in 0..sent'
    BY <1>1, <1>3, <1>4, <1>7, <1>8
  <2>4. split' \in BOOLEAN
    BY <1>1
  <2> QED BY <1>1, <2>1, <2>2, <2>3, <2>4 DEF TalkInv, TypeOK, Codes
<1>11. Layout'
  BY <1>1 DEF TalkInv, Layout
<1>12. Alternation'
  <2> SUFFICES ASSUME split' = FALSE
               PROVE  /\ pos' = arrived' /\ held' = <<>> /\ told' \subseteq {"kSuccess"}
                      /\ Written' \/ Over'
    BY <1>1 DEF Alternation
  <2>1. split = FALSE /\ AtEnd(n)
    BY <1>1, <1>3
  <2>2. /\ Answered /\ r \in Response /\ n = sent /\ pos = arrived
        /\ head = HeaderSize /\ n - pos = HeaderSize + r.size
        /\ Headers(head, rest) = {[type |-> r.type, size |-> r.size]}
        /\ Messages(HeaderSize + r.size) =
             {[identifier |-> r.identifier, code |-> r.code]}
    BY <1>1, <2>1, WholeResponse DEF head, rest
  <2>3. h = [type |-> r.type, size |-> r.size]
    BY <1>2, <2>2
  <2>4. taken = HeaderSize + r.size /\ pos' = arrived'
    <3>1. rest = r.size /\ h.size = r.size /\ r.size \in Nat
      BY <1>3, <1>4, <2>2, <2>3, HeaderSizeAssumption DEF rest, Response
    <3>2. BytesRead(h.size, rest) = r.size
      BY <3>1 DEF BytesRead
    <3>3. taken = HeaderSize + r.size
      BY <2>2, <3>2 DEF taken
    <3> QED BY <1>1, <1>3, <1>4, <1>8, <2>2, <3>3
  <2>5. Fits(r) /\ inbox = <<>> /\ event = NoEvent /\ session.state = "WAITING_REQUEST"
    BY <2>2 DEF Answered
  <2>6. held = <<>> /\ told \subseteq {"kSuccess"}
    BY <1>1, <2>1 DEF TalkInv, Alternation
  <2> DEFINE m0 == [identifier |-> r.identifier, code |-> r.code]
  <2>7. Messages(taken) = {m0}
    BY <2>2, <2>4
  <2>8. CASE r.type = "kPhoneRes"
    <3> DEFINE q == Request("kLoginReq", r.identifier)
    <3>1. inbox' = Append(inbox, q) /\ told' = told
      BY <1>8, <2>3, <2>7, <2>8 DEF Write
    <3>2. q.type = "kLoginReq" /\ q.identifier = r.identifier
      BY DEF Request
    <3> HIDE DEF q
    <3>3. Len(inbox') = 1 /\ inbox'[1] = q
      BY <2>5, <3>1
    <3>4. Fits(inbox[1])'
      BY <1>1, <2>5, <2>8, <3>2, <3>3 DEF Fits
    <3>5. Written'
      BY <1>1, <2>2, <2>5, <3>3, <3>4 DEF Written
    <3> QED BY <1>1, <2>4, <2>6, <3>1, <3>5
  <2>9. CASE r.type = "kLoginRes"
    <3>1. told' = told \cup {r.code} /\ inbox' = inbox
      BY <1>8, <2>3, <2>7, <2>9
    <3>2. r.code = "kSuccess"
      BY <2>5, <2>9 DEF Fits
    <3>3. Over'
      BY <1>1, <2>2, <2>5, <3>1 DEF Over
    <3> QED BY <1>1, <2>4, <2>6, <3>1, <3>2, <3>3
  <2> QED BY <2>2, <2>8, <2>9 DEF Response
<1> QED BY <1>1, <1>10, <1>11, <1>12 DEF TalkInv

(* Every step of the conversation preserves the invariant. *)
LEMMA NextTalk == TalkInv /\ [Next]_vars => TalkInv'
<1> SUFFICES ASSUME TalkInv, [Next]_vars
             PROVE  TalkInv'
  OBVIOUS
<1>1. CASE ReqCallback
  BY <1>1, ReqCallbackPreserves
<1>2. CASE HandlePhone \/ HandleLogin
  BY <1>2, HandlersPreserve
<1>3. CASE HandleResult
  BY <1>3, HandleResultPreserves
<1>4. CASE Connected
  BY <1>4, ConnectedPreserves
<1>5. CASE ConnectError \/ Eof \/ AllocationFails
  BY <1>5, EndPreserves
<1>6. ASSUME NEW n \in 1..sent, ClientRdCb(n)
      PROVE  TalkInv'
  BY <1>6, ClientRdCbPreserves
<1>7. CASE UNCHANGED vars
  BY <1>7 DEF TalkInv, TypeOK, Layout, Alternation, Fresh, Written, Handled, Answered,
              Over, Fits, vars, clientVars
<1> QED BY <1>1, <1>2, <1>3, <1>4, <1>5, <1>6, <1>7 DEF Next, Server, Client

-----------------------------------------------------------------------------
(* Client simulator and session alternate as the invariant says, for any   *)
(* identifiers, response sizes and number of requests, wherever TCP cuts   *)
(* the responses.                                                          *)
THEOREM TalkCorrect == Spec => []TalkInv
<1>1. Init => TalkInv
  BY InitTalk
<1>2. TalkInv /\ [Next]_vars => TalkInv'
  BY NextTalk
<1> QED BY <1>1, <1>2, PTL DEF Spec

(* Type correctness: in particular ClientRdCb never takes bytes that did   *)
(* not arrive, and no byte arrives that handle_results did not write.      *)
THEOREM TalkTypeOK == Spec => []TypeOK
<1>1. TalkInv => TypeOK
  BY DEF TalkInv
<1> QED BY <1>1, TalkCorrect, PTL

(* As long as no read ends inside a response, the memoryless ClientRdCb    *)
(* takes exactly what arrived, the next response starts where it will      *)
(* look, no request is written while another is handled, and ReqCallback   *)
(* never has a reason to drop the session.                                 *)
THEOREM TalkInStep == Spec => []InStep
<1>1. TalkInv => InStep
  <2> SUFFICES ASSUME TalkInv, split = FALSE PROVE
        /\ pos = arrived
        /\ arrived < sent => HeaderAt(responses, pos) # {}
        /\ Len(inbox) + Len(held) <= 1
        /\ event.type # "none" => inbox = <<>>
        /\ client = "talking" => session.state # "none"
    BY Zenon DEF InStep, TalkInv, TypeOK
  <2>1. arrived \in Nat /\ sent \in Nat
    BY DEF TalkInv, TypeOK, Layout
  <2>2. NoEvent.type = "none"
    BY DEF NoEvent
  <2>3. CASE client # "talking"
    BY <2>1, <2>2, <2>3, EmptySeq DEF TalkInv, Alternation, Fresh
  <2>4. CASE client = "talking"
    <3>1. /\ pos = arrived /\ held = <<>>
          /\ Written \/ Handled \/ Answered \/ Over
      BY <2>1, <2>4 DEF TalkInv, Alternation
    <3>2. arrived < sent => HeaderAt(responses, pos) # {}
      <4> SUFFICES ASSUME arrived < sent PROVE HeaderAt(responses, pos) # {}
        OBVIOUS
      <4>1. Answered
        BY <2>1, <3>1 DEF Written, Handled, Over
      <4>2. Len(responses) \in HeaderAt(responses, pos)
        BY <3>1, <4>1, LenProperties DEF Answered, HeaderAt, TalkInv, Layout
      <4> QED BY <4>2
    <3>3. Len(inbox) + Len(held) <= 1
      <4>1. Len(held) = 0
        BY <3>1, EmptySeq
      <4>2. inbox = <<>> \/ Len(inbox) = 1
        BY <3>1 DEF Written, Handled, Answered, Over
      <4>3. Len(inbox) = 0 \/ Len(inbox) = 1
        BY <4>2, EmptySeq
      <4>4. PICK a, b : a = Len(inbox) /\ b = Len(held)
        OBVIOUS
      <4>5. b = 0 /\ a \in {0, 1}
        BY <4>1, <4>3, <4>4
      <4>6. a + b <= 1
        BY <4>5
      <4> QED BY <4>4, <4>6
    <3>4. (event.type # "none" => inbox = <<>>) /\ session.state # "none"
      BY <2>2, <3>1 DEF Written, Handled, Answered, Over
    <3> QED BY <3>1, <3>2, <3>3, <3>4
  <2> QED BY <2>3, <2>4
<1> QED BY <1>1, TalkCorrect, PTL

(* A client whose responses came whole is told kSuccess or nothing: the    *)
(* identifier that ClientRdCb copies into its login request is the one     *)
(* that PhoneReqEventHandler stored in the session.                        *)
THEOREM TalkWholeMeansAccepted == Spec => []WholeMeansAccepted
<1>1. TalkInv => WholeMeansAccepted
  <2> SUFFICES ASSUME TalkInv, ~split PROVE told \subseteq {"kSuccess"}
    BY DEF WholeMeansAccepted
  <2>1. split = FALSE
    BY DEF TalkInv, TypeOK
  <2> QED BY <2>1 DEF TalkInv, Alternation, Fresh
<1> QED BY <1>1, TalkCorrect, PTL

=============================================================================
