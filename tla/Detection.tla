----------------------------- MODULE Detection -----------------------------
(***************************************************************************)
(* What a node finds out about its NAT (pkg/nat): Detect asks the hub from *)
(* two ports (service_simple.go); the tests of RFC 5780 ask a STUN server  *)
(* on two hosts with two ports each (service_stun.go).  No answer is       *)
(* matched with its request: the network may lose it, delay it past the    *)
(* timeout of Do, or repeat it.                                            *)
(***************************************************************************)
EXTENDS Naturals

CONSTANTS RemoteAddr,  \* where the server is asked first
          OtherAddr,   \* its OTHER-ADDRESS
          None

ASSUME TwoAddresses == RemoteAddr.ip # OtherAddr.ip /\ RemoteAddr.port # OtherAddr.port

VARIABLES call,       \* the function called
          mapping,    \* the NAT: what a mapping depends on
          filtering,  \* and what it lets in depends on
          step,       \* the test under way
          asked,      \* Do (udpDetect) has sent its request and waits
          sent,       \* the destinations of the socket
          open,       \* the socket is open
          net,        \* answers of the server, for ever under way
          reader,     \* the goroutine of connectStun: "read", "hand" (to messageChan), "ended"
          held,       \* what it hands over
          xor,        \* the mapped address that each test has read
          mappedAddrs,
          verdict,    \* MappingBehavior and FilterBehavior
          outcome,    \* "running", "ok", "error" or "panic"
          read,       \* history: answers read from the socket
          repeated,   \* history: one of them twice
          late        \* history: Do has timed out

setting == <<call, mapping, filtering>>
history == <<read, repeated, late>>
detectionVars == <<setting, step, asked, sent, open, net, reader, held, xor, mappedAddrs, verdict,
                   outcome, history>>

Tests == {"d1", "d2", "m1", "m2", "m3", "f1", "f2", "f3"}
Behaviors == {"Unknown", "NoNAT", "EndpointIndependent", "AddressDependent", "AddressPortDependent"}

(* The socket is bound to no address of the host.                          *)
LocalAddr == <<"0.0.0.0">>

NatMappings == {"none", "independent", "address", "port"}

(* What a NAT makes of the socket's address for packets to d.              *)
AddrBehind(m, d) == CASE m = "none" -> <<"own">>
                      [] m = "independent" -> <<"public">>
                      [] m = "address" -> <<"public", d.ip>>
                      [] m = "port" -> <<"public", d.ip, d.port>>

MappedAddr(d) == AddrBehind(mapping, d)

At(ip, port) == [ip |-> ip, port |-> port]

Dest_OtherAddr(t) ==
    CASE t \in {"m2", "m3"} -> OtherAddr
      [] t = "d2" -> At(RemoteAddr.ip, OtherAddr.port)
      [] OTHER -> RemoteAddr

(* Mapping test 2 changes the host only.                                   *)
Dest(t) == CASE t = "m2" -> At(OtherAddr.ip, RemoteAddr.port)
             [] t = "m3" -> OtherAddr
             [] t = "d2" -> At(RemoteAddr.ip, OtherAddr.port)
             [] OTHER -> RemoteAddr

Source_Swapped(t) ==
    CASE t = "f2" -> At(RemoteAddr.ip, OtherAddr.port)
      [] t = "f3" -> OtherAddr
      [] OTHER -> Dest(t)

(* CHANGE-REQUEST: the answer comes from another host and port, or port.   *)
Source(t) == CASE t = "f2" -> OtherAddr
               [] t = "f3" -> At(RemoteAddr.ip, OtherAddr.port)
               [] OTHER -> Dest(t)

StunAddrs == {LocalAddr} \cup {AddrBehind(m, Dest(t)) : m \in NatMappings, t \in Tests}

ASSUME NoneIsNoAddr == None \notin StunAddrs

Answers == [test : Tests, xor : StunAddrs \cup {None}]

DetectionTypeOK ==
    /\ call \in {"Detect", "MappingTests", "FilterTests", "AnalyzeStunBehavior"}
    /\ mapping \in NatMappings
    /\ filtering \in {"independent", "address", "port"}
    /\ step \in Tests /\ asked \in BOOLEAN
    /\ sent \subseteq {Dest(t) : t \in Tests} /\ open \in BOOLEAN
    /\ net \subseteq Answers /\ read \subseteq net
    /\ reader \in {"read", "hand", "ended"} /\ (reader = "hand" => held \in net)
    /\ xor \in [Tests -> StunAddrs \cup {None}] /\ mappedAddrs \subseteq StunAddrs
    /\ verdict \in [mapping : Behaviors, filter : Behaviors]
    /\ outcome \in {"running", "ok", "error", "panic"}
    /\ repeated \in BOOLEAN /\ late \in BOOLEAN

DetectionInit ==
    /\ call \in {"Detect", "MappingTests", "FilterTests", "AnalyzeStunBehavior"}
    /\ mapping \in NatMappings
    /\ filtering \in {"independent", "address", "port"}
    /\ step = (CASE call = "Detect" -> "d1" [] call = "FilterTests" -> "f1" [] OTHER -> "m1")
    /\ asked = FALSE /\ sent = {} /\ open = TRUE /\ net = {}
    /\ reader = "read" /\ held = None
    /\ xor = [t \in Tests |-> None] /\ mappedAddrs = {}
    /\ verdict = [mapping |-> "Unknown", filter |-> "Unknown"]
    /\ outcome = "running"
    /\ read = {} /\ repeated = FALSE /\ late = FALSE

-----------------------------------------------------------------------------
(* The server and the NAT *)

(* An answer without addresses is an error response.                       *)
ServerAnswers(t) ==
    LET shown == MappedAddr(Dest(t))
    IN  \E x \in {shown} \cup (IF call = "Detect" THEN {} ELSE {None}) :
            net' = net \cup {[test |-> t, xor |-> x]}

(* It is sent to the address the request came from, and let in if the      *)
(* socket has used that address to send there.                             *)
LetIn(a) ==
    \E d \in sent :
        /\ MappedAddr(d) = MappedAddr(Dest(a.test))
        /\ \/ filtering = "independent"
           \/ filtering = "address" /\ d.ip = Source(a.test).ip
           \/ d = Source(a.test)

ReadFromUDP(a) ==
    /\ open /\ outcome # "panic" /\ LetIn(a)
    /\ read' = read \cup {a}
    /\ repeated' = (repeated \/ a \in read)
    /\ UNCHANGED late

-----------------------------------------------------------------------------
Return(o) == outcome' = o /\ UNCHANGED <<step, asked>>

Continue(t) == step' = t /\ asked' = FALSE /\ UNCHANGED outcome

Show(a) ==
    /\ xor' = [xor EXCEPT ![step] = a]
    /\ mappedAddrs' = IF a = None THEN mappedAddrs ELSE mappedAddrs \cup {a}

Ask_Retransmit ==
    /\ outcome = "running" /\ (asked => call # "Detect")
    /\ asked' = TRUE
    /\ sent' = sent \cup {Dest(step)}
    /\ ServerAnswers(step)
    /\ UNCHANGED <<setting, step, open, reader, held, xor, mappedAddrs, verdict, outcome, history>>

Ask ==
    /\ outcome = "running" /\ ~asked
    /\ asked' = TRUE
    /\ sent' = sent \cup {Dest(step)}
    /\ ServerAnswers(step)
    /\ UNCHANGED <<setting, step, open, reader, held, xor, mappedAddrs, verdict, outcome, history>>

-----------------------------------------------------------------------------
(* Detect *)

(* Read takes the answer from whoever sent it.                             *)
UdpDetect(a) ==
    /\ call = "Detect" /\ outcome = "running" /\ asked /\ ReadFromUDP(a)
    /\ Show(a.xor)
    /\ IF step = "d1" THEN Continue("d2") ELSE Return("ok")
    /\ UNCHANGED <<setting, sent, open, net, reader, held, verdict>>

(* Five seconds, or a datagram that is no JSON.                            *)
UdpDetectFails ==
    /\ call = "Detect" /\ outcome = "running" /\ asked
    /\ Return("error")
    /\ UNCHANGED <<setting, sent, open, net, reader, held, xor, mappedAddrs, verdict, history>>

-----------------------------------------------------------------------------
(* The goroutine of connectStun *)

Reader(a) ==
    /\ call # "Detect" /\ reader = "read" /\ ReadFromUDP(a)
    /\ reader' = "hand" /\ held' = a
    /\ UNCHANGED <<setting, step, asked, sent, open, net, xor, mappedAddrs, verdict, outcome>>

(* A datagram that is no STUN message, or the socket is closed.            *)
ReaderEnds ==
    /\ call # "Detect" /\ reader = "read" /\ outcome # "panic"
    /\ reader' = "ended"
    /\ UNCHANGED <<setting, step, asked, sent, open, net, held, xor, mappedAddrs, verdict,
                   outcome, history>>

(* The caller closes the socket when it returns; the reader may have read  *)
(* one more answer until then.                                             *)
Close ==
    /\ outcome \notin {"running", "panic"} /\ open
    /\ open' = FALSE
    /\ UNCHANGED <<setting, step, asked, sent, net, reader, held, xor, mappedAddrs, verdict,
                   outcome, history>>

-----------------------------------------------------------------------------
(* The tests.  mappingTests looks at the addresses of tests 2 and 3, nil   *)
(* in an error response, without asking.                                   *)

Mapping(b) ==
    /\ verdict' = [verdict EXCEPT !.mapping = b]
    /\ IF call = "AnalyzeStunBehavior" THEN Continue("f1") ELSE Return("ok")

Filter(b) == verdict' = [verdict EXCEPT !.filter = b] /\ Return("ok")

Handle(a) ==
    CASE step \in {"m1", "f1"} /\ a = None -> Return("error") /\ UNCHANGED verdict
      [] step = "m1" /\ a = LocalAddr -> Mapping("NoNAT")
      [] step = "m1" /\ a \notin {None, LocalAddr} -> Continue("m2") /\ UNCHANGED verdict
      [] step \in {"m2", "m3"} /\ a = None -> Return("panic") /\ UNCHANGED verdict
      [] step = "m2" /\ a # None /\ a = xor["m1"] -> Mapping("EndpointIndependent")
      [] step = "m2" /\ a # None /\ a # xor["m1"] -> Continue("m3") /\ UNCHANGED verdict
      [] step = "m3" /\ a # None ->
            Mapping(IF a = xor["m2"] THEN "AddressDependent" ELSE "AddressPortDependent")
      [] step = "f1" /\ a # None -> Continue("f2") /\ UNCHANGED verdict
      [] step = "f2" -> Filter("EndpointIndependent")
      [] step = "f3" -> Filter("AddressDependent")

Do ==
    /\ outcome = "running" /\ asked /\ reader = "hand"
    /\ reader' = "read"
    /\ Show(held.xor) /\ Handle(held.xor)
    /\ UNCHANGED <<setting, sent, open, net, held, history>>

(* messageChan is closed. *)
DoFails ==
    /\ outcome = "running" /\ asked /\ reader = "ended"
    /\ Return("error")
    /\ UNCHANGED <<setting, sent, open, net, reader, held, xor, mappedAddrs, verdict, history>>

(* Three seconds.  Only the filter tests go on: they expect it.            *)
DoTimesOut ==
    /\ call # "Detect" /\ outcome = "running" /\ asked
    /\ late' = TRUE
    /\ CASE step = "f2" -> Continue("f3") /\ UNCHANGED verdict
         [] step = "f3" -> Filter("AddressPortDependent")
         [] OTHER -> Return("error") /\ UNCHANGED verdict
    /\ UNCHANGED <<setting, sent, open, net, reader, held, xor, mappedAddrs, read, repeated>>

DetectionNext == \/ Ask \/ UdpDetectFails \/ ReaderEnds \/ Close \/ Do \/ DoFails \/ DoTimesOut
        \/ \E a \in net : UdpDetect(a) \/ Reader(a)

DetectionSpec == DetectionInit /\ [][DetectionNext]_detectionVars

-----------------------------------------------------------------------------
(* Properties *)

(* The verdict on the NAT's mapping is right unless an answer was read     *)
(* twice, although no answer is matched with a request.  Detect can tell   *)
(* no more than whether a mapping depends on the port.  NoNAT is never     *)
(* said: the address of the socket is 0.0.0.0.                             *)
MappingRight ==
    ~repeated =>
        /\ call = "Detect" /\ outcome = "ok" => (xor["d1"] = xor["d2"] <=> mapping # "port")
        /\ verdict.mapping \in CASE mapping \in {"none", "independent"} ->
                                        {"Unknown", "EndpointIndependent"}
                                 [] mapping = "address" -> {"Unknown", "AddressDependent"}
                                 [] mapping = "port" -> {"Unknown", "AddressPortDependent"}

Openness(b) == CASE b \in {"EndpointIndependent", "independent"} -> 2
                 [] b \in {"AddressDependent", "address"} -> 1
                 [] b \in {"AddressPortDependent", "port"} -> 0

(* A filter is not said to be more open than it is, late as answers may be,*)
(* unless one was read twice, or mapping test 2 had opened it to the other *)
(* host before: AnalyzeStunBehavior uses one socket for all tests.         *)
FilterNotOpened ==
    ~repeated /\ verdict.filter # "Unknown" =>
        \/ Openness(verdict.filter) <= Openness(filtering)
        \/ /\ call = "AnalyzeStunBehavior" /\ filtering = "address"
           /\ mapping \in {"none", "independent"}

(* The reader is left for ever on messageChan, which nobody reads any more,*)
(* only if an answer was read twice or Do did not wait for it.             *)
LeakNeedsLateAnswer ==
    outcome \in {"ok", "error"} /\ reader = "hand" => repeated \/ late
=============================================================================
