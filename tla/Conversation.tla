---------------------------- MODULE Conversation ----------------------------
(***************************************************************************)
(* One client_simulator and its session, from connect to the last answer:  *)
(* PhoneReq, the response with the identifier that the session keeps,      *)
(* LoginReq with that identifier, and the response to it.  The send side   *)
(* of the wire protocol is here (handlers, MsgProxy::Unpack,               *)
(* handle_results, the client's ClientRdCb); for the receive side, Framing *)
(* shows that requests come out of the stream as they were written, so a   *)
(* request is delivered whole.                                             *)
(*                                                                         *)
(* The bytes the server writes are numbered as in MsgProxy.  TCP may cut   *)
(* them anywhere.  ClientRdCb keeps no buffer: each call takes a header    *)
(* and a body from what happens to be there, fills up with zeros, and      *)
(* believes what it finds.  A header that is not at the start of a         *)
(* response reads as anything.                                             *)
(***************************************************************************)
EXTENDS MsgProxy

CONSTANTS Identifiers,   \* what generate_identifier may return
          PhoneResSize, LoginResSize,   \* ByteSize() of the responses
          MaxRequests    \* bound: requests the client writes

ASSUME ConversationAssumption ==
  /\ Identifiers \subseteq Nat \ {0}
  /\ PhoneResSize \in Nat \ {0} /\ LoginResSize \in Nat \ {0}
  /\ MaxRequests \in Nat \ {0} /\ HeaderSize > 6

VARIABLES
  client,      \* "connecting", "talking", "ended"
  wrote,       \* number of requests the client wrote
  told,        \* the login results it printed
  inbox,       \* requests on their way to the server
  held,        \* requests in the session's input buffer, not parsed
  session,     \* "none", or state, identifier_, whether phone_number_ is stored
  event,       \* the session's event in the pool, or NoEvent
  responses,   \* the responses written to the stream, each with its place
  sent,        \* bytes the server wrote
  arrived,     \* bytes that libevent moved to the client's input buffer
  pos,         \* bytes ClientRdCb took from it
  split        \* some read of the client ended inside a response

clientVars == <<client, wrote, told, arrived, pos, split>>
vars == <<clientVars, inbox, held, session, event, responses, sent>>

NoSession == [state |-> "none", identifier |-> 0, phone |-> FALSE]
NewSession == [state |-> "WAITING_REQUEST", identifier |-> 0, phone |-> FALSE]
NoEvent == [type |-> "none", identifier |-> 0, code |-> "none"]

Request(type, identifier) ==
  [type |-> type, identifier |-> identifier, code |-> "none"]

Init ==
  /\ client = "connecting" /\ wrote = 0 /\ told = {}
  /\ inbox = <<>> /\ held = <<>>
  /\ session = NoSession /\ event = NoEvent
  /\ responses = <<>>
  /\ sent = 0 /\ arrived = 0 /\ pos = 0 /\ split = FALSE

-----------------------------------------------------------------------------
(* The server *)

(* ReqCallback: k more requests are there.  Pack throws while one is being *)
(* handled, and the session is deleted while its event stays in the pool   *)
(* with a pointer to it; else it takes the oldest request, and those       *)
(* behind it wait for the next call.                                       *)
ReqCallback ==
  /\ session.state # "none"
  /\ \E k \in 1..Len(inbox) :
       LET input == held \o SubSeq(inbox, 1, k) IN
       /\ inbox' = SubSeq(inbox, k + 1, Len(inbox))
       /\ \/ /\ session.state = "HANDLING"
             /\ session' = NoSession /\ held' = <<>> /\ UNCHANGED event
          \/ /\ session.state = "WAITING_REQUEST"
             /\ session' = [session EXCEPT !.state = "HANDLING"]
             /\ event' = Head(input) /\ held' = Tail(input)
  /\ UNCHANGED <<clientVars, responses, sent>>

(* What follows uses the session through the event's pointer.  Once it is  *)
(* deleted, a store is lost, a load yields anything, and what is written   *)
(* to its bufferevent reaches nobody.  (The process may also die there,    *)
(* or a new session have the address: NetGate has both.)                   *)
Deleted == session.state = "none"
Loaded(field, values) == IF Deleted THEN values ELSE {field}

EvPhoneRes(identifier, code) ==
  [type |-> "kPhoneRes", identifier |-> identifier, code |-> code]
EvLoginRes(code) == [type |-> "kLoginRes", identifier |-> 0, code |-> code]

(* Mutant: the identifier is generated once to be stored and once to be    *)
(* sent.                                                                   *)
HandlePhoneTwice ==
  /\ event.type = "kPhoneReq"
  /\ \E i, j \in Identifiers :
       /\ session' = IF Deleted THEN session
                     ELSE [session EXCEPT !.identifier = i, !.phone = TRUE]
       /\ event' = EvPhoneRes(j, "kSuccess")
  /\ UNCHANGED <<clientVars, inbox, held, responses, sent>>

(* PhoneReqEventHandler::Handle *)
HandlePhone ==
  /\ event.type = "kPhoneReq"
  /\ \E i \in Identifiers :
       /\ session' = IF Deleted THEN session
                     ELSE [session EXCEPT !.identifier = i, !.phone = TRUE]
       /\ event' = EvPhoneRes(i, "kSuccess")
  /\ UNCHANGED <<clientVars, inbox, held, responses, sent>>

(* LoginReqEventHandler::Handle; Login has what UserDAO does in between,   *)
(* which does not change the answer.                                       *)
HandleLogin ==
  /\ event.type = "kLoginReq"
  /\ \E phone \in Loaded(session.phone, BOOLEAN),
        i \in Loaded(session.identifier, Identifiers \cup {0}) :
       event' = EvLoginRes(IF phone /\ i = event.identifier
                           THEN "kSuccess" ELSE "kInvalidData")
  /\ UNCHANGED <<clientVars, inbox, held, session, responses, sent>>

ByteSize(e) == IF e.type = "kPhoneRes" THEN PhoneResSize ELSE LoginResSize

(* Mutant: one byte more than the length field says is sent. *)
UnpackWithNul(e) ==
  [start |-> sent, type |-> e.type, size |-> ByteSize(e),
   total |-> HeaderSize + ByteSize(e) + 1, identifier |-> e.identifier, code |-> e.code]

(* MsgProxy::Unpack: magic, type, length and the serialised message; total *)
(* is the number of bytes that handle_results writes.                      *)
Unpack(e) ==
  [start |-> sent, type |-> e.type, size |-> ByteSize(e),
   total |-> HeaderSize + ByteSize(e), identifier |-> e.identifier, code |-> e.code]

(* Mutant: the session stays HANDLING. *)
HandleResultStays ==
  /\ event.type \in {"kPhoneRes", "kLoginRes"} /\ ~Deleted
  /\ responses' = Append(responses, Unpack(event))
  /\ sent' = sent + Unpack(event).total
  /\ event' = NoEvent
  /\ UNCHANGED <<clientVars, inbox, held, session>>

(* handle_results *)
HandleResult ==
  /\ event.type \in {"kPhoneRes", "kLoginRes"}
  /\ event' = NoEvent
  /\ \/ /\ ~Deleted
        /\ responses' = Append(responses, Unpack(event))
        /\ sent' = sent + Unpack(event).total
        /\ session' = [session EXCEPT !.state = "WAITING_REQUEST"]
     \/ /\ Deleted
        /\ UNCHANGED <<responses, sent, session>>
  /\ UNCHANGED <<clientVars, inbox, held>>

-----------------------------------------------------------------------------
(* The client *)

Write(r) == inbox' = Append(inbox, r) /\ wrote' = wrote + 1

(* ClientEvCb: connected, and the session accepted; or an error. *)
Connected ==
  /\ client = "connecting"
  /\ client' = "talking" /\ session' = NewSession
  /\ Write(Request("kPhoneReq", 0))
  /\ UNCHANGED <<told, arrived, pos, split, held, event, responses, sent>>

ConnectError ==
  /\ client = "connecting"
  /\ client' = "ended"
  /\ UNCHANGED <<wrote, told, arrived, pos, split, inbox, held, session, event,
                 responses, sent>>

(* Mutant: what is not there is read too. *)
BytesReadAll(want, there) == want

(* bufferevent_read: as much as is asked for, or as is there. *)
BytesRead(want, there) == IF want <= there THEN want ELSE there

(* Type and length as ClientRdCb finds them in the first `head' bytes at    *)
(* pos.  They are in bytes 4-5 and 6-9, little-endian and below 256, so one *)
(* byte of a field is enough; a field without bytes is zero.  Where no      *)
(* response starts, any (a length beyond the `rest' that is there takes     *)
(* all of it).                                                              *)
Headers(head, rest) ==
  LET rs == HeaderAt(responses, pos) IN
  IF rs = {} THEN [type : {"kPhoneRes", "kLoginRes", "kUnknown"}, size : 0..rest]
  ELSE LET r == responses[CHOOSE i \in rs : TRUE]
       IN  {[type |-> IF head > 4 THEN r.type ELSE "kUnknown",
             size |-> IF head > 6 THEN r.size ELSE 0]}

(* The messages that ParseFromArray may yield from the next `taken' bytes: *)
(* those of the response that they are; else any identifier, and a code     *)
(* that is not the server's ("none").                                       *)
Messages(taken) ==
  LET rs == {i \in HeaderAt(responses, pos) :
               taken = HeaderSize + responses[i].size} IN
  IF rs # {} THEN {[identifier |-> responses[i].identifier,
                    code |-> responses[i].code] : i \in rs}
  ELSE [identifier : Identifiers \cup {0}, code : {"none"}]

AtEnd(n) == \E i \in 1..Len(responses) : responses[i].start + responses[i].total = n

ClientRdCb(n) ==
  LET head == BytesRead(HeaderSize, n - pos) IN
  /\ client = "talking" /\ n \in (arrived + 1)..sent
  /\ arrived' = n
  /\ split' = (split \/ ~AtEnd(n))
  /\ \E h \in Headers(head, n - pos - head) :
       LET taken == head + BytesRead(h.size, n - pos - head) IN
       /\ pos' = pos + taken
       /\ \/ /\ h.type = "kPhoneRes" /\ wrote < MaxRequests
             /\ \E m \in Messages(taken) : Write(Request("kLoginReq", m.identifier))
             /\ UNCHANGED told
          \/ /\ h.type = "kLoginRes"
             /\ told' \in {told \cup {m.code} : m \in Messages(taken)}
             /\ UNCHANGED <<inbox, wrote>>
          \/ /\ h.type = "kUnknown"
             /\ UNCHANGED <<told, inbox, wrote>>
  /\ UNCHANGED <<client, held, session, event, responses, sent>>

(* A length read from the middle of a response is too much for new[]: the  *)
(* exception ends the program.                                             *)
AllocationFails ==
  /\ client = "talking" /\ arrived < sent
  /\ HeaderAt(responses, pos) = {}
  /\ client' = "ended"
  /\ UNCHANGED <<wrote, told, arrived, pos, split, inbox, held, session, event,
                 responses, sent>>

(* End of file, after the server deleted the session, and with it what was *)
(* still in its output buffer: ClientEvCb has no case for it, nothing is   *)
(* left to wait for and event_base_dispatch returns.                       *)
Eof ==
  /\ client = "talking" /\ session.state = "none"
  /\ client' = "ended"
  /\ UNCHANGED <<wrote, told, arrived, pos, split, inbox, held, session, event,
                 responses, sent>>

-----------------------------------------------------------------------------
Server == ReqCallback \/ HandlePhone \/ HandleLogin \/ HandleResult
Client == \/ Connected \/ ConnectError \/ Eof \/ AllocationFails
          \/ \E n \in 1..sent : ClientRdCb(n)

Next == Server \/ Client

Spec == Init /\ [][Next]_vars

(* Both programs keep running and TCP delivers. *)
FairSpec == Spec /\ WF_vars(Server) /\ WF_vars(Client)

-----------------------------------------------------------------------------
Event == [type : EventTypes \cup {"none"}, identifier : Identifiers \cup {0},
          code : {"none", "kSuccess", "kInvalidData"}]

TypeOK ==
  /\ client \in {"connecting", "talking", "ended"}
  /\ wrote \in 0..MaxRequests
  /\ told \subseteq {"none", "kSuccess", "kInvalidData"}
  /\ inbox \in Seq(Event) /\ held \in Seq(Event) /\ event \in Event
  /\ session \in [state : {"none", "WAITING_REQUEST", "HANDLING"},
                  identifier : Identifiers \cup {0}, phone : BOOLEAN]
  /\ pos \in 0..arrived /\ arrived \in 0..sent
  /\ split \in BOOLEAN

(* As long as no read ends inside a response, client and server are in     *)
(* step: ClientRdCb, which has no memory, has taken exactly the responses  *)
(* that arrived, the next one starts where it will look, no request is     *)
(* written while another is handled, and the session is never dropped.     *)
InStep ==
  ~split =>
    /\ pos = arrived
    /\ arrived < sent => HeaderAt(responses, pos) # {}
    /\ Len(inbox) + Len(held) <= 1
    /\ event.type # "none" => inbox = <<>>
    /\ client = "talking" => session.state # "none"

(* A client whose responses came whole is logged in: the identifier it     *)
(* sends is the one its session keeps, so it is never told kInvalidData    *)
(* nor shown a result that the server did not send.                        *)
WholeMeansAccepted == ~split => told \subseteq {"kSuccess"}

(* The conversation ends with kSuccess, unless connecting failed or a      *)
(* response was cut.                                                       *)
Completes == <>("kSuccess" \in told \/ split \/ (client = "ended" /\ wrote = 0))

=============================================================================
