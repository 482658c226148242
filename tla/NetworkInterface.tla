---------------------------- MODULE NetworkInterface ----------------------------
(***************************************************************************)
(* libsponge/network_interface.{hh,cc}: IP datagrams out through Ethernet  *)
(* frames, with ARP to find the Ethernet address of the next hop.          *)
(*                                                                         *)
(* frames_out is the set of the frames that the last call pushed (the      *)
(* owner has taken the earlier ones); the order in which datagrams leave   *)
(* is kept in `sent'.                                                      *)
(***************************************************************************)
EXTENDS ListOps

CONSTANTS
  IP,                        \* the addresses of the possible next hops
  OwnIP, OwnEth,             \* _ip_address and _ethernet_address
  EthernetAddress,           \* the other hosts' Ethernet addresses
  ETHERNET_BROADCAST,
  arp_entry_default_ttl,     \* 30 seconds in the code
  arp_response_default_ttl,  \* 5 seconds in the code
  InterfaceTickSizes,        \* the milliseconds one call of tick() may report
  MaxDatagrams               \* bound: how many datagrams are sent to each next hop

ASSUME InterfaceAssumption ==
  /\ OwnIP \notin IP
  /\ OwnEth \notin EthernetAddress
  /\ ETHERNET_BROADCAST \notin EthernetAddress \union {OwnEth}
  /\ arp_entry_default_ttl \in Nat \ {0}
  /\ arp_response_default_ttl \in Nat \ {0}
  /\ InterfaceTickSizes \subseteq Nat
  /\ MaxDatagrams \in Nat

VARIABLES
  arp_table,                      \* for some IPs: an Ethernet address and a time to live
  waiting_arp_response_ip_addr,   \* for some IPs: the time until the request is repeated
  waiting_arp_internet_datagrams, \* the datagrams that wait for an address, with the IP of their next hop
  frames_out,                     \* what the last call sent
  hung,                           \* the last call never returned
  accepted,                       \* history, for each IP: the datagrams handed to send_datagram()
  sent,                           \* history, for each IP: the datagrams sent, in their order
  heard,                          \* history, for each IP: what its last ARP message said, how long ago
  asked                           \* history, for each IP: the time since the last request

interfaceVars == <<arp_table, waiting_arp_response_ip_addr, waiting_arp_internet_datagrams, frames_out,
          hung, accepted, sent, heard, asked>>

\* Nothing was heard from the address yet, or too long ago to matter.
Unheard == [eth |-> OwnEth, ago |-> arp_entry_default_ttl]

InterfaceInit ==
  /\ arp_table = [ip \in {} |-> Unheard]
  /\ waiting_arp_response_ip_addr = [ip \in {} |-> 0]
  /\ waiting_arp_internet_datagrams = <<>>
  /\ frames_out = {}
  /\ hung = FALSE
  /\ accepted = [ip \in IP |-> <<>>]
  /\ sent = [ip \in IP |-> <<>>]
  /\ heard = [ip \in IP |-> Unheard]
  /\ asked = [ip \in IP |-> 0]

Resolved == DOMAIN arp_table

Pending == DOMAIN waiting_arp_response_ip_addr

Request(ip) == [type |-> "ARP_REQUEST", dst |-> ETHERNET_BROADCAST, target |-> ip]

Reply(ip, eth) == [type |-> "ARP_REPLY", dst |-> eth, target |-> ip]

IPv4(ip, eth) == [type |-> "IPv4", dst |-> eth, target |-> ip]

\* The function f with f[x] = v, whether or not x was in its domain.
Assign(f, x, v) == [y \in DOMAIN f \union {x} |-> IF y = x THEN v ELSE f[y]]

Erase(f, x) == [y \in DOMAIN f \ {x} |-> f[y]]

\* send_datagram() when the next hop's address is known.
SendKnown(ip, dgram) ==
  /\ ip \in Resolved
  /\ frames_out' = {IPv4(ip, arp_table[ip].eth)}
  /\ sent' = [sent EXCEPT ![ip] = Append(@, dgram)]
  /\ UNCHANGED <<waiting_arp_response_ip_addr, waiting_arp_internet_datagrams, asked>>

\* A variant that forgets to note that the request was sent.
SendUnknown_unnoted(ip, dgram) ==
  /\ ip \notin Resolved
  /\ frames_out' = {Request(ip)}
  /\ asked' = [asked EXCEPT ![ip] = 0]
  /\ waiting_arp_internet_datagrams' = Append(waiting_arp_internet_datagrams, [ip |-> ip, dgram |-> dgram])
  /\ UNCHANGED <<waiting_arp_response_ip_addr, sent>>

\* send_datagram() when it is not: ask for it, unless that was done, and wait.
SendUnknown(ip, dgram) ==
  /\ ip \notin Resolved
  /\ IF ip \in Pending
     THEN /\ frames_out' = {}
          /\ UNCHANGED <<waiting_arp_response_ip_addr, asked>>
     ELSE /\ frames_out' = {Request(ip)}
          /\ waiting_arp_response_ip_addr' = Assign(waiting_arp_response_ip_addr, ip, arp_response_default_ttl)
          /\ asked' = [asked EXCEPT ![ip] = 0]
  /\ waiting_arp_internet_datagrams' = Append(waiting_arp_internet_datagrams, [ip |-> ip, dgram |-> dgram])
  /\ UNCHANGED sent

\* Datagrams to one next hop are numbered.
SendDatagram(ip) ==
  LET dgram == Len(accepted[ip]) + 1
  IN  /\ ~ hung
      /\ Len(accepted[ip]) < MaxDatagrams
      /\ accepted' = [accepted EXCEPT ![ip] = Append(@, dgram)]
      /\ SendKnown(ip, dgram) \/ SendUnknown(ip, dgram)
      /\ UNCHANGED <<arp_table, hung, heard>>

ForUs(frame) == frame.dst \in {OwnEth, ETHERNET_BROADCAST}

is_valid_arp_request(frame) == frame.opcode = "REQUEST" /\ frame.target_ip = OwnIP

is_valid_arp_response(frame) == frame.opcode = "REPLY" /\ frame.target_eth = OwnEth

\* A variant that goes on past the element behind the one it has erased.
flush_step_skipping(w, ip) ==
  CASE w.i > Len(w.list) -> w
    [] w.i <= Len(w.list) /\ w.list[w.i].ip = ip ->
         [list |-> erase(w.list, w.i), i |-> w.i + 1, sent |-> Append(w.sent, w.list[w.i].dgram)]
    [] OTHER -> [w EXCEPT !.i = @ + 1]

\* A variant that sends a datagram and leaves it in the list.
flush_step_keeping(w, ip) ==
  CASE w.i > Len(w.list) -> w
    [] w.i <= Len(w.list) /\ w.list[w.i].ip = ip ->
         [list |-> w.list, i |-> w.i + 1, sent |-> Append(w.sent, w.list[w.i].dgram)]
    [] OTHER -> [w EXCEPT !.i = @ + 1]

\* One round of the loop of recv_frame() over the list: a datagram for ip is sent, by
\* send_datagram(), which now finds the address, and erased; another is passed over.
flush_step(w, ip) ==
  CASE w.i > Len(w.list) -> w
    [] w.i <= Len(w.list) /\ w.list[w.i].ip = ip ->
         [list |-> erase(w.list, w.i), i |-> w.i, sent |-> Append(w.sent, w.list[w.i].dgram)]
    [] OTHER -> [w EXCEPT !.i = @ + 1]

\* The whole loop: each round comes one element closer to the end.
flush(list, ip) ==
  LET after[n \in 0 .. Len(list)] ==
        IF n = 0 THEN [list |-> list, i |-> 1, sent |-> <<>>] ELSE flush_step(after[n - 1], ip)
  IN  after[Len(list)]

\* The mapping is entered, and the datagrams that waited for it go out.
Learn(ip, eth, reply) ==
  LET w == flush(waiting_arp_internet_datagrams, ip)
  IN  /\ arp_table' = Assign(arp_table, ip, [eth |-> eth, ttl |-> arp_entry_default_ttl])
      /\ heard' = [heard EXCEPT ![ip] = [eth |-> eth, ago |-> 0]]
      /\ frames_out' = reply \union (IF w.sent # <<>> THEN {IPv4(ip, eth)} ELSE {})
      /\ sent' = [sent EXCEPT ![ip] = @ \o w.sent]
      /\ waiting_arp_internet_datagrams' = w.list
      /\ waiting_arp_response_ip_addr' = Erase(waiting_arp_response_ip_addr, ip)

\* recv_frame() with an ARP message.  (A frame with an IPv4 datagram, or one that
\* does not parse, is returned or dropped without any effect on the interface.)
RecvARP(frame) ==
  /\ ~ hung
  /\ IF ForUs(frame) /\ (is_valid_arp_request(frame) \/ is_valid_arp_response(frame))
     THEN Learn(frame.sender_ip, frame.sender_eth,
                IF is_valid_arp_request(frame) THEN {Reply(frame.sender_ip, frame.sender_eth)} ELSE {})
     ELSE /\ frames_out' = {}
          /\ UNCHANGED <<arp_table, waiting_arp_response_ip_addr, waiting_arp_internet_datagrams, sent, heard>>
  /\ UNCHANGED <<hung, accepted, asked>>

\* A variant that lets an entry live on when its time is exactly over.
expired_late(ttl, ms) == ttl < ms

expired(ttl, ms) == ttl <= ms

\* A variant that does not ask again.
reasked_never(ttl, ms) == IF expired(ttl, ms) THEN arp_entry_default_ttl ELSE ttl - ms

\* The time until the next request.  After a request the loop stays at the same
\* entry, now with the full time, and lowers it at once.
reasked(ttl, ms) == IF expired(ttl, ms) THEN arp_response_default_ttl - ms ELSE ttl - ms

Elapsed(ago, ms) == IF ago + ms < arp_entry_default_ttl THEN ago + ms ELSE arp_entry_default_ttl

\* When a request is due and ms is the full time or more, the loop finds the request
\* due again, for ever.
InterfaceTick(ms) ==
  LET due == { ip \in Pending : expired(waiting_arp_response_ip_addr[ip], ms) }
  IN  /\ ~ hung
      /\ arp_table' = [ip \in { i \in Resolved : ~ expired(arp_table[i].ttl, ms) } |->
                         [eth |-> arp_table[ip].eth, ttl |-> arp_table[ip].ttl - ms]]
      /\ frames_out' = { Request(ip) : ip \in due }
      /\ hung' = (due # {} /\ ms >= arp_response_default_ttl)
      /\ waiting_arp_response_ip_addr' =
           IF hung' THEN waiting_arp_response_ip_addr
           ELSE [ip \in Pending |-> reasked(waiting_arp_response_ip_addr[ip], ms)]
      /\ heard' = [ip \in IP |-> [eth |-> heard[ip].eth, ago |-> Elapsed(heard[ip].ago, ms)]]
      /\ asked' = [ip \in IP |-> IF ip \in due THEN 0
                                ELSE IF ip \in Pending THEN asked[ip] + ms ELSE asked[ip]]
      /\ UNCHANGED <<waiting_arp_internet_datagrams, accepted, sent>>

\* ARP messages as they come in, from any host, to anyone, about anyone.
ARPFrame == [dst : {OwnEth, ETHERNET_BROADCAST} \union EthernetAddress,
             opcode : {"REQUEST", "REPLY"},
             sender_ip : IP, sender_eth : EthernetAddress,
             target_ip : IP \union {OwnIP}, target_eth : EthernetAddress \union {OwnEth}]

InterfaceNext ==
  \/ \E ip \in IP : SendDatagram(ip)
  \/ \E frame \in ARPFrame : RecvARP(frame)
  \/ \E ms \in InterfaceTickSizes : InterfaceTick(ms)

InterfaceSpec == InterfaceInit /\ [][InterfaceNext]_interfaceVars

\* The owner calls tick() again and again.
FairInterfaceSpec == InterfaceSpec /\ WF_interfaceVars(\E ms \in InterfaceTickSizes \ {0} : InterfaceTick(ms))

-----------------------------------------------------------------------------
Entry == [eth : EthernetAddress, ttl : 1 .. arp_entry_default_ttl]

Waiting == [ip : IP, dgram : Nat]

\* The datagrams for ip in a list, in their order.
DatagramsFor(list, ip) ==
  LET among[n \in 0 .. Len(list)] ==
        IF n = 0 THEN <<>>
        ELSE IF list[n].ip = ip THEN Append(among[n - 1], list[n].dgram) ELSE among[n - 1]
  IN  among[Len(list)]

\* The maps and the lists keep their types; no time to live, which is unsigned,
\* goes below zero.
TypeOK ==
  /\ Resolved \subseteq IP /\ arp_table \in [Resolved -> Entry]
  /\ Pending \subseteq IP
  /\ waiting_arp_response_ip_addr \in [Pending -> 1 .. arp_response_default_ttl]
  /\ waiting_arp_internet_datagrams \in Seq(Waiting)
  /\ hung \in BOOLEAN
  /\ accepted \in [IP -> Seq(Nat)]
  /\ sent \in [IP -> Seq(Nat)]
  /\ heard \in [IP -> [eth : EthernetAddress \union {OwnEth}, ago : 0 .. arp_entry_default_ttl]]
  /\ asked \in [IP -> Nat]

\* Every datagram given to send_datagram() is sent once, in its turn among those to
\* the same next hop, or still waits: nothing is lost, repeated or overtaken
\* between the lookup, the wait in one list and the walk of recv_frame() over it.
NothingLost ==
  \A ip \in IP : sent[ip] \o DatagramsFor(waiting_arp_internet_datagrams, ip) = accepted[ip]

\* A datagram that waits has a request under way that will be repeated, and a hop
\* whose address is known has neither: send_datagram(), recv_frame() and tick()
\* keep three containers in step.
WaitsForAnswer ==
  /\ \A n \in 1 .. Len(waiting_arp_internet_datagrams) : waiting_arp_internet_datagrams[n].ip \in Pending
  /\ Resolved \intersect Pending = {}

\* tests/net_interface.cc: "active mappings last 30 seconds", no less and no more,
\* from the last ARP message of that host, and hold what that message said.
MappingIsFresh ==
  \A ip \in IP :
    /\ ip \in Resolved <=> heard[ip].ago < arp_entry_default_ttl
    /\ ip \in Resolved => /\ arp_table[ip].eth = heard[ip].eth
                       /\ arp_table[ip].ttl + heard[ip].ago = arp_entry_default_ttl

\* A request that is not answered is repeated within the time it stays pending.
RepeatedInTime ==
  ~ hung => \A ip \in Pending :
    asked[ip] + waiting_arp_response_ip_addr[ip] <= arp_response_default_ttl

\* While datagrams wait for an answer that does not come, requests go on.
KeepsAsking ==
  \A ip \in IP :
    <>[](\E n \in 1 .. Len(waiting_arp_internet_datagrams) : waiting_arp_internet_datagrams[n].ip = ip)
      => []<>(Request(ip) \in frames_out)

=============================================================================
