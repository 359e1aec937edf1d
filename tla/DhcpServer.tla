----------------------------- MODULE DhcpServer -----------------------------
(***************************************************************************)
(* The DHCP server of the access point (dhcpserver.c): a table of leases   *)
(* by hardware address.  A DISCOVER looks for the client's own entry and   *)
(* recycles expired ones on the way; only a REQUEST makes an entry.  The   *)
(* expiry is kept in the upper 16 bits of the millisecond clock, which     *)
(* wraps: here in units of Unit ticks of a clock modulo ClockMod.  The     *)
(* stations are external: they keep an address as long as its lease, and   *)
(* ask again for it when they rejoin a restarted access point.             *)
(***************************************************************************)
EXTENDS Integers, FiniteSets, FiniteSetsExt

CONSTANTS Stations,   \* hardware addresses
          NoMac,      \* the all-zero address of a free entry
          MaxIp,      \* DHCPS_MAX_IP
          LeaseTime,  \* DEFAULT_LEASE_TIME_S in ticks
          Unit,       \* ticks per unit of the stored expiry
          ClockMod    \* values of cyw43_hal_ticks_ms

ASSUME DhcpAssumption ==
    /\ NoMac \notin Stations /\ {MaxIp, LeaseTime, Unit, ClockMod} \subseteq Nat \ {0}
    /\ ClockMod % (2 * Unit) = 0 /\ LeaseTime + Unit < ClockMod \div 2

Entries == 0..MaxIp - 1

VARIABLES lease,    \* the table: mac and expiry
          ticks,    \* cyw43_hal_ticks_ms
          station   \* per station: what it does, its address and time left

dhcp_vars == <<lease, ticks, station>>

Unknown == [state |-> "init", addr |-> 0, left |-> 0]

(* dhcp_server_init clears the table.                                      *)
DhcpServerInit == lease = [i \in Entries |-> [mac |-> NoMac, expiry |-> 0]]

DhcpInit == DhcpServerInit /\ ticks = 0 /\ station = [s \in Stations |-> Unknown]

(* Bug for DhcpInv: the low bits that were cut off are taken for zero.     *)
ExpiredEarly(i) ==
    (lease[i].expiry * Unit - ticks) % ClockMod >= ClockMod \div 2

(* (int32_t)(expiry - now) < 0, with the low bits of expiry all ones.      *)
Remaining(i) == (lease[i].expiry * Unit + Unit - 1 - ticks) % ClockMod
Expired(i) == Remaining(i) >= ClockMod \div 2

Free(i) == lease[i].mac = NoMac

(* The loop of DHCPDISCOVER: up to the station's own entry, the first one  *)
(* free or expired is the candidate; the station's own entry wins.         *)
Own(s) == {i \in Entries : lease[i].mac = s}
Passed(s) == {i \in Entries : \A j \in Own(s) : i < j}
Candidates(s) == {i \in Passed(s) : Free(i) \/ Expired(i)}
Found(s) == Own(s) \cup Candidates(s) # {}
Chosen(s) == IF Own(s) # {} THEN Min(Own(s)) ELSE Min(Candidates(s))

(* The candidate, if expired, loses its owner, chosen or not.              *)
Recycled(s) ==
    [i \in Entries |-> IF Candidates(s) # {} /\ i = Min(Candidates(s)) /\ Expired(i)
                         THEN [lease[i] EXCEPT !.mac = NoMac] ELSE lease[i]]

(* dhcp_server_process, DHCPDISCOVER: an offer, unless the table is full;  *)
(* it may get lost.                                                        *)
Discover(s) ==
    /\ station[s].state \in {"init", "offered"}
    /\ lease' = Recycled(s)
    /\ \/ UNCHANGED station
       \/ /\ Found(s)
          /\ station' = [station EXCEPT ![s] =
                 [state |-> "offered", addr |-> Chosen(s), left |-> 0]]
    /\ UNCHANGED ticks

(* (now + lease time) >> 16                                                *)
Expiry == ((ticks + LeaseTime) % ClockMod) \div Unit

(* An entry is granted to its owner or, if free, to the first who asks.    *)
Grantable(s, i) == lease[i].mac \in {s, NoMac}

(* ... DHCPREQUEST with the requested address: acknowledged, also if the   *)
(* answer is lost, or ignored ("Should be NACK") until the station starts  *)
(* again.                                                                  *)
Request(s) ==
    /\ station[s].state \in {"offered", "rejoin"}
    /\ LET i == station[s].addr IN
         IF Grantable(s, i)
           THEN /\ lease' = [lease EXCEPT ![i] = [mac |-> s, expiry |-> Expiry]]
                /\ \/ UNCHANGED station
                   \/ station' = [station EXCEPT ![s] =
                          [state |-> "bound", addr |-> i, left |-> LeaseTime]]
           ELSE station' = [station EXCEPT ![s] = Unknown] /\ UNCHANGED lease
    /\ UNCHANGED ticks

(* A bound station renews with its address in ciaddr and without the       *)
(* option the server looks for: it is ignored, and its lease runs out.     *)
Left(st) == IF st.state # "bound" THEN st
            ELSE IF st.left = 1 THEN Unknown ELSE [st EXCEPT !.left = @ - 1]

DhcpTick ==
    /\ ticks' = (ticks + 1) % ClockMod
    /\ station' = [s \in Stations |-> Left(station[s])]
    /\ UNCHANGED lease

(* The access point restarts: stations that had an address ask for it.     *)
DhcpRestart ==
    /\ lease' = [i \in Entries |-> [mac |-> NoMac, expiry |-> 0]] /\ ticks' = 0
    /\ station' = [s \in Stations |-> IF station[s].state = "bound"
                     THEN [station[s] EXCEPT !.state = "rejoin", !.left = 0]
                     ELSE station[s]]

DhcpNext == DhcpTick \/ DhcpRestart \/ \E s \in Stations : Discover(s) \/ Request(s)

DhcpSpec == DhcpInit /\ [][DhcpNext]_dhcp_vars

-----------------------------------------------------------------------------
(* Properties                                                              *)

DhcpTypeOK ==
    /\ lease \in [Entries -> [mac : Stations \cup {NoMac}, expiry : 0..(ClockMod \div Unit) - 1]]
    /\ ticks \in 0..ClockMod - 1
    /\ station \in [Stations -> [state : {"init", "offered", "bound", "rejoin"},
                                 addr : Entries, left : 0..LeaseTime]]

(* The entry of a station that may use an address is its own and lasts at  *)
(* least as long as the station counts on, and no longer than rounded up.  *)
LeasesLast ==
    \A s \in Stations : station[s].state = "bound" =>
        LET i == station[s].addr
        IN  /\ lease[i].mac = s /\ station[s].left >= 1
            /\ Remaining(i) \in station[s].left..LeaseTime + Unit - 1

(* A station that asks for an address owns no other.                       *)
AsksForItsOwn ==
    \A s \in Stations : station[s].state # "init" => Own(s) \subseteq {station[s].addr}

(* The leases (dhcpserver.c): a station that may use an address is the     *)
(* owner of its entry, so no two use the same one, whatever is lost and    *)
(* whenever the clock wraps or the access point restarts; an entry is not  *)
(* taken from a station before its lease is over; no one owns two.         *)
DhcpInv ==
    /\ DhcpTypeOK /\ LeasesLast /\ AsksForItsOwn
    /\ \A s \in Stations : station[s].state = "bound" => ~Expired(station[s].addr)
    /\ \A s \in Stations : Cardinality(Own(s)) <= 1

=============================================================================
