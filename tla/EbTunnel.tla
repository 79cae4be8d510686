------------------------------ MODULE EbTunnel ------------------------------
(***************************************************************************)
(* Devices behind a tunnel: programs that open "tunnel/gateway/device"     *)
(* (transport/tunnel.c over transport/posix-tcp.c), the server eb-tunnel   *)
(* (tools/eb-tunnel.c) and the devices it reaches with datagrams           *)
(* (transport/posix-udp.c).  A packet travels as a frame on the TCP stream *)
(* between program and server: its length in two bytes, then its bytes.    *)
(*                                                                         *)
(* The server is one loop: select, accept, then for every client first the *)
(* datagrams that came for it, then the frames it sent.  It reads the name *)
(* of the device, the second byte of a length and the body of a frame with *)
(* a blocking recv.  A program is one thread too: it sends, or it polls    *)
(* and then blocks for the rest of a frame.                                *)
(***************************************************************************)
EXTENDS Integers, Sequences

CONSTANTS
  Client,      \* programs that open one device through the tunnel
  Host,        \* machines beyond the tunnel
  IPv4,        \* those with an IPv4 address
  Target,      \* the machine whose name a client sends
  Nobody,      \* a socket address that is all zeros
  Text,        \* what strncmp sees of an address: up to its first zero byte
  Length,      \* lengths of packets
  Mtu,         \* the longest packet that both ends take
  Radix,       \* values of a byte: 256
  Loads,       \* bound: how many packets the programs send, each a choice
  Leaves,      \* programs that may end at any time
  Stray        \* <<client, machine>>: who sends whom what was not asked for

ASSUME TunnelAssumption ==
  /\ IPv4 \subseteq Host /\ Stray \subseteq Client \X Host /\ Nobody \notin Host
  /\ Target \in [Client -> Host]
  /\ DOMAIN Text = Host \cup {Nobody}
  /\ \A h \in Host \ IPv4 : Text[h] = Text[Nobody]
  /\ Radix \in Nat \ {0} /\ Mtu \in 1 .. Radix * Radix - 1
  /\ Length \subseteq 1..Mtu /\ Loads \subseteq [Client -> Nat] /\ Leaves \subseteq Client

(* A byte of a stream is known by its frame and its place in it; the first *)
(* two bytes of a frame tell how long its body is.  Frame 0 of a program's *)
(* stream is the name of its device, in one token.                         *)
Byte == [frame : Nat, size : Nat, at : Nat]
Part(n, size, from, to) ==
  [k \in 1 .. to - from + 1 |-> [frame |-> n, size |-> size, at |-> from + k - 1]]

Name == Part(0, 0, 2, 2)
Header(n, size) == Part(n, size, 1, 2)
Body(n, size) == Part(n, size, 3, size + 2)

(* What a byte holds: the length, high byte first, then what the program   *)
(* or the device put there, which is never looked at.                      *)
Value(b) == IF b.at = 1 THEN b.size \div Radix ELSE b.size % Radix
\* The low byte first
Decoded2_LowFirst(s) == Value(s[2]) * Radix + Value(s[1])

Decoded2(s) == Value(s[1]) * Radix + Value(s[2])

VARIABLES
  link,    \* the program's TCP connection
  sent,    \* lengths of the packets given to eb_tunnel_send
  writing, \* is it between the two sends of eb_tunnel_send?
  got,     \* what eb_tunnel_poll has read of a length
  heard,   \* packets eb_tunnel_poll has returned
  up,      \* the bytes from the program to the server
  upRead,  \* how many of them the server has read
  down,    \* the bytes from the server to the program
  downRead,
  backlog, \* connections that wait for accept
  list,    \* the clients of the server
  server,  \* where the server is in its loop, and its local variables
  hup,     \* clients whose connection the server has closed
  dest,    \* udp_slave: where the packets of a client go
  box,     \* datagrams that have arrived at the UDP sockets of a client
  sa,      \* eb_posix_udp_sa: where the last datagram came from
  da,      \* eb_posix_udp_da: where the last one over IPv4 went
  net,     \* datagrams on their way to a device
  passed,  \* packets the server has sent on as datagrams
  framed,  \* datagrams the server has framed for the program
  strays   \* the datagrams nobody asked for, so far

programVars == <<link, sent, writing, got, heard, downRead>>
serverVars == <<list, server, hup, dest, sa, da, passed, framed, upRead>>
tunnelVars == <<programVars, up, down, backlog, serverVars, box, net, strays>>

Sockets == {4, 6}
Family(h) == IF h \in IPv4 THEN 4 ELSE 6

NothingReady == [port |-> FALSE, tcp |-> {}, udp |-> {}]

TunnelInit ==
  /\ link = [c \in Client |-> "none"]
  /\ sent = [c \in Client |-> <<>>]
  /\ writing = [c \in Client |-> FALSE]
  /\ got = [c \in Client |-> <<>>]
  /\ heard = [c \in Client |-> <<>>]
  /\ up = [c \in Client |-> <<>>] /\ upRead = [c \in Client |-> 0]
  /\ down = [c \in Client |-> <<>>] /\ downRead = [c \in Client |-> 0]
  /\ backlog = {} /\ list = {} /\ hup = {}
  /\ server = [pc |-> "select", ready |-> NothingReady, todo |-> {},
               at |-> {}, got |-> <<>>, fail |-> FALSE]
  /\ dest = [c \in Client |-> Nobody]
  /\ box = [c \in Client |-> {}]
  /\ sa = Nobody /\ da = Nobody /\ net = {} /\ strays = {}
  /\ passed = [c \in Client |-> <<>>]
  /\ framed = [c \in Client |-> <<>>]

----------------------------------------------------------------------------
(* The program.                                                            *)

(* eb_tunnel_connect: a TCP connection, then the name.                     *)
Connect(c) ==
  /\ link[c] = "none" /\ server.pc # "killed"
  /\ link' = [link EXCEPT ![c] = "asking"]
  /\ backlog' = backlog \cup {c}
  /\ UNCHANGED <<sent, writing, got, heard, downRead, up, down, serverVars,
                 box, net, strays>>

SendName(c) ==
  /\ link[c] = "asking"
  /\ link' = [link EXCEPT ![c] = "open"]
  /\ up' = [up EXCEPT ![c] = @ \o Name]
  /\ UNCHANGED <<sent, writing, got, heard, downRead, down, backlog,
                 serverVars, box, net, strays>>

(* eb_tunnel_send: the length, then the packet.                            *)
SendHeader(c) ==
  /\ link[c] = "open" /\ ~writing[c] /\ got[c] = <<>>
  /\ \E m \in Loads : /\ Len(sent[c]) < m[c]
                    /\ \A e \in Client : Len(sent[e]) <= m[e]
  /\ \E size \in Length :
       /\ sent' = [sent EXCEPT ![c] = Append(@, size)]
       /\ up' = [up EXCEPT ![c] = @ \o Header(Len(sent[c]) + 1, size)]
  /\ writing' = [writing EXCEPT ![c] = TRUE]
  /\ UNCHANGED <<link, got, heard, downRead, down, backlog, serverVars, box,
                 net, strays>>

SendBody(c) ==
  LET n == Len(sent[c]) IN
  /\ link[c] = "open" /\ writing[c]
  /\ up' = [up EXCEPT ![c] = @ \o Body(n, sent[c][n])]
  /\ writing' = [writing EXCEPT ![c] = FALSE]
  /\ UNCHANGED <<link, sent, got, heard, downRead, down, backlog, serverVars,
                 box, net, strays>>

(* eb_tunnel_disconnect, or the end of the program: at any point, also in  *)
(* the middle of a frame.  A reset may overtake what was sent last.        *)
Close(c) ==
  /\ c \in Leaves /\ link[c] \in {"asking", "open"}
  /\ link' = [link EXCEPT ![c] = "closed"]
  /\ \E k \in upRead[c] .. Len(up[c]) : up' = [up EXCEPT ![c] = SubSeq(@, 1, k)]
  /\ UNCHANGED <<sent, writing, got, heard, downRead, down, backlog,
                 serverVars, box, net, strays>>

(* A recv of at most max bytes returns any part of what is there, not more *)
(* than asked for.  k is how much.                                         *)
Receives(stream, taken, max, k) == k \in 1..max /\ taken + k <= Len(stream)

Hears(c, k) == downRead' = [downRead EXCEPT ![c] = @ + k]
Heard(c, k) == SubSeq(down[c], downRead[c] + 1, downRead[c] + k)

(* eb_tunnel_poll finds one or two bytes of a length,                      *)
PollHeader(c) ==
  /\ link[c] = "open" /\ ~writing[c] /\ got[c] = <<>>
  /\ \E k \in 1..2 :
       /\ Receives(down[c], downRead[c], 2, k) /\ Hears(c, k)
       /\ got' = [got EXCEPT ![c] = Heard(c, k)]
  /\ UNCHANGED <<link, sent, writing, heard, up, down, backlog, serverVars,
                 box, net, strays>>

(* blocks for the second,                                                  *)
PollSecond(c) ==
  /\ link[c] = "open" /\ Len(got[c]) = 1
  /\ Receives(down[c], downRead[c], 1, 1) /\ Hears(c, 1)
  /\ got' = [got EXCEPT ![c] = @ \o Heard(c, 1)]
  /\ UNCHANGED <<link, sent, writing, heard, up, down, backlog, serverVars,
                 box, net, strays>>

(* and for the packet, with one recv: a part of it is as bad as none.      *)
PollBody(c) ==
  LET size == Decoded2(got[c]) IN
  /\ link[c] = "open" /\ Len(got[c]) = 2
  /\ \E k \in 1..Mtu :
       /\ Receives(down[c], downRead[c], size, k) /\ Hears(c, k)
       /\ \/ /\ k = size
             /\ heard' = [heard EXCEPT ![c] = Append(@, Heard(c, k))]
             /\ UNCHANGED link
          \/ /\ k < size
             /\ link' = [link EXCEPT ![c] = "closed"]
             /\ UNCHANGED heard
  /\ got' = [got EXCEPT ![c] = <<>>]
  /\ UNCHANGED <<sent, writing, up, down, backlog, serverVars, box, net, strays>>

(* A poll or a blocking recv at the end of the stream, and a length of     *)
(* nothing or of more than the buffer holds: the link is closed.           *)
PollEnds(c) ==
  /\ link[c] = "open" /\ ~writing[c]
  /\ \/ c \in hup /\ downRead[c] = Len(down[c])
     \/ Len(got[c]) = 2 /\ Decoded2(got[c]) \notin 1..Mtu
  /\ link' = [link EXCEPT ![c] = "closed"]
  /\ UNCHANGED <<sent, writing, got, heard, downRead, up, down, backlog,
                 serverVars, box, net, strays>>

----------------------------------------------------------------------------
(* The server.                                                             *)

\* recv waits at the end of a stream, too.
Ended_Never(c) == FALSE

Ended(c) == link[c] = "closed" /\ upRead[c] = Len(up[c])
Readable(c) == upRead[c] < Len(up[c]) \/ Ended(c)
Arrived(c, f) == {p \in box[c] : Family(p.host) = f}

(* select with the sockets of all clients, and what it found.              *)
Select ==
  LET found == [port |-> backlog # {}, tcp |-> {c \in list : Readable(c)},
                udp |-> {s \in list \X Sockets : Arrived(s[1], s[2]) # {}}] IN
  /\ server.pc = "select" /\ found # NothingReady
  /\ server' = [server EXCEPT !.pc = "accept", !.ready = found]
  /\ UNCHANGED <<programVars, up, down, backlog, list, hup, dest, sa, da,
                 passed, framed, upRead, box, net, strays>>

(* The loop over eb_posix_tcp_accept: until nobody waits.                  *)
Accept ==
  /\ server.pc = "accept"
  /\ \/ /\ server.ready.port
        /\ \E c \in backlog :
             /\ backlog' = backlog \ {c}
             /\ server' = [server EXCEPT !.pc = "name", !.at = {c}]
     \/ /\ ~server.ready.port \/ backlog = {}
        /\ server' = [server EXCEPT !.pc = "serve", !.todo = list]
        /\ UNCHANGED backlog
  /\ UNCHANGED <<programVars, up, down, list, hup, dest, sa, da, passed,
                 framed, upRead, box, net, strays>>

Enlist(c, h) ==
  /\ list' = list \cup {c} /\ dest' = [dest EXCEPT ![c] = h] /\ UNCHANGED hup
Refuse(c) == hup' = hup \cup {c} /\ UNCHANGED <<list, dest>>

(* eb_new_client: reads the name, and refuses the client when the name is  *)
(* unknown or no socket is left.  If the stream ends first, the byte that  *)
(* decides was never written: the name may pass for any other.             *)
NewClient(c) ==
  /\ server.pc = "name" /\ c \in server.at
  /\ \/ /\ upRead[c] < Len(up[c])
        /\ upRead' = [upRead EXCEPT ![c] = @ + 1]
        /\ Enlist(c, Target[c]) \/ Refuse(c)
     \/ /\ Ended(c)
        /\ UNCHANGED upRead
        /\ (\E h \in Host : Enlist(c, h)) \/ Refuse(c)
  /\ server' = [server EXCEPT !.pc = "accept", !.at = {}]
  /\ UNCHANGED <<programVars, up, down, backlog, sa, da, passed, framed, box,
                 net, strays>>

(* The loop over the clients, in any order.                                *)
Serve ==
  /\ server.pc = "serve"
  /\ \/ /\ server.todo = {}
        /\ server' = [server EXCEPT !.pc = "select", !.ready = NothingReady]
     \/ \E c \in server.todo :
          server' = [server EXCEPT !.pc = "udp", !.at = {c}]
  /\ UNCHANGED <<programVars, up, down, backlog, list, hup, dest, sa, da,
                 passed, framed, upRead, box, net, strays>>

Serving(c, pc) == server.pc = pc /\ c \in server.at

(* The end of a turn: a client that failed loses connection and socket.    *)
TurnEnds(c, fail) ==
  /\ server' = [server EXCEPT !.pc = "serve", !.todo = @ \ {c}, !.at = {},
                              !.got = <<>>, !.fail = FALSE]
  /\ IF fail THEN /\ hup' = hup \cup {c} /\ list' = list \ {c}
                  /\ box' = [box EXCEPT ![c] = {}]
     ELSE UNCHANGED <<hup, list, box>>

\* No look at the address of the sender
Solicited_Any(h) == TRUE

(* Is the sender of the datagram the machine that the last datagram over   *)
(* IPv4 went to?                                                           *)
Solicited(h) == Text[da] = Text[h]

(* A datagram becomes a frame.  To send it to a program that has gone may  *)
(* raise SIGPIPE, which nobody handles.                                    *)
FrameDatagram(c, p) ==
  /\ box' = [box EXCEPT ![c] = @ \ {p}]
  /\ framed' = [framed EXCEPT ![c] = Append(@, p)]
  /\ down' = [down EXCEPT ![c] = @ \o Part(Len(framed[c]) + 1, p.size, 1, p.size + 2)]
  /\ \/ UNCHANGED <<server, hup>>
     \/ /\ link[c] = "closed"
        /\ server' = [server EXCEPT !.pc = "killed", !.at = {}]
        /\ hup' = Client

UdpFails == server' = [server EXCEPT !.pc = "tcp", !.fail = TRUE]

(* eb_posix_udp_poll looks at the socket for IPv4 first.  The comparison   *)
(* comes before the result of recvfrom: when there was nothing to receive, *)
(* it is with the sender of an earlier datagram.                           *)
Poll4(c) ==
  /\ Serving(c, "udp") /\ <<c, 4>> \in server.ready.udp
  /\ \/ \E p \in Arrived(c, 4) :
          /\ sa' = p.host
          /\ IF Solicited(p.host) THEN FrameDatagram(c, p)
             ELSE /\ box' = [box EXCEPT ![c] = @ \ {p}]
                  /\ UdpFails /\ UNCHANGED <<framed, down, hup>>
     \/ /\ Arrived(c, 4) = {} /\ ~Solicited(sa)
        /\ UdpFails /\ UNCHANGED <<sa, box, framed, down, hup>>
  /\ UNCHANGED <<programVars, up, backlog, list, dest, da, passed, upRead,
                 net, strays>>

Skips4(c) ==
  <<c, 4>> \in server.ready.udp => Arrived(c, 4) = {} /\ Solicited(sa)

Poll6(c) ==
  /\ Serving(c, "udp") /\ Skips4(c) /\ <<c, 6>> \in server.ready.udp
  /\ \E p \in Arrived(c, 6) : sa' = p.host /\ FrameDatagram(c, p)
  /\ UNCHANGED <<programVars, up, backlog, list, dest, da, passed, upRead,
                 net, strays>>

PolledDry(c) ==
  /\ Serving(c, "udp") /\ Skips4(c)
  /\ <<c, 6>> \notin server.ready.udp \/ Arrived(c, 6) = {}
  /\ server' = [server EXCEPT !.pc = "tcp"]
  /\ UNCHANGED <<programVars, up, down, backlog, list, hup, dest, sa, da,
                 passed, framed, upRead, box, net, strays>>

Reads(c, k) == upRead' = [upRead EXCEPT ![c] = @ + k]
ReadNow(c, k) == SubSeq(up[c], upRead[c] + 1, upRead[c] + k)

(* eb_posix_tcp_poll: one or two bytes of a length, or none.               *)
ReadHeader(c) ==
  /\ Serving(c, "tcp")
  /\ \/ /\ c \in server.ready.tcp
        /\ \E k \in 1..2 :
             /\ Receives(up[c], upRead[c], 2, k) /\ Reads(c, k)
             /\ server' = [server EXCEPT !.pc = IF k = 1 THEN "second" ELSE "body",
                                         !.got = ReadNow(c, k)]
        /\ UNCHANGED <<hup, list, box>>
     \/ /\ c \in server.ready.tcp => upRead[c] = Len(up[c])
        /\ TurnEnds(c, server.fail \/ (c \in server.ready.tcp /\ Ended(c)))
        /\ UNCHANGED upRead
  /\ UNCHANGED <<programVars, up, down, backlog, dest, sa, da, passed, framed,
                 net, strays>>

(* A blocking recv for the second byte.                                    *)
ReadSecond(c) ==
  /\ Serving(c, "second")
  /\ \/ /\ Receives(up[c], upRead[c], 1, 1) /\ Reads(c, 1)
        /\ server' = [server EXCEPT !.pc = "body", !.got = @ \o ReadNow(c, 1)]
        /\ UNCHANGED <<hup, list, box>>
     \/ Ended(c) /\ TurnEnds(c, TRUE) /\ UNCHANGED upRead
  /\ UNCHANGED <<programVars, up, down, backlog, dest, sa, da, passed, framed,
                 net, strays>>

(* eb_posix_udp_send: the packet goes to the client's device, and its      *)
(* address is remembered if it is one of IPv4.                             *)
PassOn(c, body) ==
  /\ passed' = [passed EXCEPT ![c] = Append(@, body)]
  /\ net' = net \cup {[client |-> c, host |-> dest[c], body |-> body]}
  /\ da' = IF dest[c] \in IPv4 THEN dest[c] ELSE da

(* One blocking recv for the packet.                                       *)
ReadBody(c) ==
  LET size == Decoded2(server.got) IN
  /\ Serving(c, "body")
  /\ \/ /\ size \in 1..Mtu
        /\ \E k \in 1..Mtu :
             /\ Receives(up[c], upRead[c], size, k) /\ Reads(c, k)
             /\ \/ /\ k = size
                   /\ PassOn(c, ReadNow(c, k))
                   /\ server' = [server EXCEPT !.pc = "tcp", !.got = <<>>]
                   /\ UNCHANGED <<hup, list, box>>
                \/ /\ k < size /\ TurnEnds(c, TRUE)
                   /\ UNCHANGED <<passed, net, da>>
     \/ /\ size \notin 1..Mtu \/ Ended(c)
        /\ TurnEnds(c, TRUE)
        /\ UNCHANGED <<upRead, passed, net, da>>
  /\ UNCHANGED <<programVars, up, down, backlog, dest, sa, framed, strays>>

----------------------------------------------------------------------------
(* The devices and the network: a datagram is lost, or it arrives and a    *)
(* packet that is whole is answered once, with a packet of any length.     *)
(* Datagrams wait at the socket in no order.                               *)
Deliver(d) ==
  /\ d \in net
  /\ net' = net \ {d}
  /\ \/ UNCHANGED box
     \/ \E n \in 1..Len(passed[d.client]), size \in Length, answer \in Length :
          /\ d.body = Body(n, size) /\ d.client \in list
          /\ box' = [box EXCEPT ![d.client] = @ \cup
               {[answers |-> n, size |-> answer, host |-> d.host]}]
  /\ UNCHANGED <<programVars, up, down, backlog, serverVars, strays>>

Disturb(c, h) ==
  /\ c \in list /\ <<c, h>> \in Stray \ strays
  /\ strays' = strays \cup {<<c, h>>}
  /\ \E size \in Length :
       box' = [box EXCEPT ![c] = @ \cup {[answers |-> 0, size |-> size, host |-> h]}]
  /\ UNCHANGED <<programVars, up, down, backlog, serverVars, net>>

----------------------------------------------------------------------------
Turn(c) ==
  Poll4(c) \/ Poll6(c) \/ PolledDry(c) \/ ReadHeader(c) \/ ReadSecond(c) \/ ReadBody(c)

ServerStep == Select \/ Accept \/ Serve \/ \E c \in Client : NewClient(c) \/ Turn(c)

ProgramStep(c) ==
  \/ Connect(c) \/ SendName(c) \/ SendHeader(c) \/ SendBody(c) \/ Close(c)
  \/ PollHeader(c) \/ PollSecond(c) \/ PollBody(c) \/ PollEnds(c)

TunnelNext ==
  \/ ServerStep
  \/ \E c \in Client : ProgramStep(c) \/ (\E h \in Host : Disturb(c, h))
  \/ \E d \in net : Deliver(d)

TunnelSpec == TunnelInit /\ [][TunnelNext]_tunnelVars

(* The server runs, and a program that has begun to send its name or a     *)
(* packet goes on with it or closes the connection.                        *)
TunnelFairSpec ==
  /\ TunnelSpec /\ WF_tunnelVars(ServerStep)
  /\ \A c \in Client : WF_tunnelVars(SendName(c)) /\ WF_tunnelVars(SendBody(c))

----------------------------------------------------------------------------
(* Properties.                                                             *)

(* The first packets of these sizes, each a whole frame's body.            *)
Whole(packets, sizes) ==
  /\ Len(packets) <= Len(sizes)
  /\ \A i \in DOMAIN packets : packets[i] = Body(i, sizes[i])

Sizes(c) == [i \in DOMAIN framed[c] |-> framed[c][i].size]

(* Wherever the streams are cut, what the server sends to the device are   *)
(* the first packets the program gave to eb_tunnel_send, and what          *)
(* eb_tunnel_poll returns are the first datagrams the server framed: every *)
(* one whole, none twice, none missing in between.                         *)
FramesAreWhole ==
  \A c \in Client : Whole(passed[c], sent[c]) /\ Whole(heard[c], Sizes(c))

(* When the clients whose devices have IPv4 addresses all use one device,  *)
(* whose address tells it apart from the machines that disturb, ...        *)
OneDevice ==
  /\ \A c, e \in Client : {Target[c], Target[e]} \subseteq IPv4 => Target[c] = Target[e]
  /\ \A s \in Stray :
       /\ s[2] \in IPv4 /\ Text[s[2]] # Text[Nobody]
       /\ \A c \in Client : Text[s[2]] # Text[Target[c]]

(* ... a program hears nobody but its device, and only answers to requests *)
(* that were passed on.                                                    *)
OnlyItsDevice ==
  OneDevice => \A c \in Client : \A i \in DOMAIN framed[c] :
    /\ framed[c][i].host = Target[c]
    /\ framed[c][i].answers \in 1..Len(passed[c])

(* A packet given to eb_tunnel_send reaches the device's network, or its   *)
(* client is dropped or closes: nobody waits for ever for another client,  *)
(* though the server blocks on one at a time.                              *)
EveryRequestPasses ==
  \A c \in Client : \A m \in Loads : \A n \in 1..m[c] :
    Len(sent[c]) >= n ~> (Len(passed[c]) >= n \/ c \in hup \/ link[c] = "closed")
=============================================================================
