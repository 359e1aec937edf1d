------------------------------ MODULE Wireless ------------------------------
(***************************************************************************)
(* wireless.c and access_point_mode.c: the wireless task joins the         *)
(* configured network or, failing that, opens an access point, starts the  *)
(* services on top and then only serves the LED queue; the LED task polls  *)
(* the state the wireless task writes and posts without waiting.  On a     *)
(* joined network mDNS renames the unit while its host name is taken.      *)
(***************************************************************************)
EXTENDS Integers, Sequences

CONSTANTS MaxTimeout,   \* bound of timeout_ms, in units of one failed attempt
          Names,        \* values of mdns_hostname_attempt
          Taken         \* suffixes other units on the network answer to

ASSUME WirelessAssumption ==
    /\ MaxTimeout \in Nat /\ Names \in Nat \ {0, 1}
    /\ Taken \subseteq 0..Names - 1 /\ 0..Names - 1 # Taken

VARIABLES wireless_state, \* current_wireless_state, or "DEAD" after exit(-1)
          wireless_step,  \* where wireless_task is
          wireless_left,  \* time until stop_tick
          wireless_config,\* enable and timeout in RAM
          wireless_saved, \* and in the EEPROM
          ctrl_queue,     \* wireless_ctrl_queue: LED_ON and LED_OFF as booleans
          led_state,      \* what the LED task wants to show
          led_saw,        \* the state at its last look
          led_pin,        \* the LED
          httpd,          \* NONE, or the page at / once the server listens
          host_name,      \* the suffix of the host name
          link            \* cyw43_tcpip_link_status in station mode

wireless_vars == <<wireless_state, wireless_step, wireless_left, wireless_config,
                   wireless_saved, ctrl_queue, led_state, led_saw, led_pin, httpd,
                   host_name, link>>

Settings == [enable : BOOLEAN, timeout : 0..MaxTimeout]

(* Reset: RAM is cleared; wireless_init loads the settings and creates the *)
(* task.                                                                   *)
WirelessOff ==
    /\ wireless_state = "NOT_INITIALIZED" /\ wireless_step = "boot"
    /\ wireless_left = 0 /\ ctrl_queue = <<>> /\ led_state = FALSE
    /\ led_saw = "NOT_INITIALIZED" /\ led_pin = FALSE /\ httpd = "NONE"
    /\ host_name = 1 /\ link = "down"

WirelessInit ==
    /\ WirelessOff
    /\ wireless_saved = [enable |-> FALSE, timeout |-> MaxTimeout]
    /\ wireless_config = wireless_saved

-----------------------------------------------------------------------------
(* wireless_task                                                           *)

WirelessKeep == UNCHANGED <<wireless_config, wireless_saved, led_state, led_saw>>

(* cyw43_arch_init: without the radio the task ends.                       *)
WirelessBoot ==
    /\ wireless_step = "boot"
    /\ \/ wireless_state' = "DEAD" /\ wireless_step' = "dead"
       \/ wireless_state' = "IDLE" /\ wireless_step' = "start"
    /\ UNCHANGED <<wireless_left, ctrl_queue, led_pin, httpd, host_name, link>>
    /\ WirelessKeep

WirelessStart ==
    /\ wireless_step = "start"
    /\ IF wireless_config.enable
         THEN /\ wireless_state' = "STA_INIT" /\ wireless_step' = "connect"
              /\ wireless_left' = wireless_config.timeout
         ELSE /\ wireless_step' = "decide"
              /\ UNCHANGED <<wireless_state, wireless_left>>
    /\ UNCHANGED <<ctrl_queue, led_pin, httpd, host_name, link>>
    /\ WirelessKeep

(* One attempt: it may fail at once or take all of its own timeout.        *)
WirelessConnect ==
    /\ wireless_step = "connect" /\ wireless_left > 0
    /\ \/ /\ wireless_state' = "STA_LISTEN" /\ wireless_step' = "decide"
          /\ link' = "up" /\ UNCHANGED wireless_left
       \/ /\ \E d \in 1..wireless_left : wireless_left' = wireless_left - d
          /\ UNCHANGED <<wireless_state, wireless_step, link>>
    /\ UNCHANGED <<ctrl_queue, led_pin, httpd, host_name>>
    /\ WirelessKeep

(* Out of time: "put it back to idle".                                     *)
WirelessGiveUp ==
    /\ wireless_step = "connect" /\ wireless_left = 0
    /\ wireless_state' = "IDLE" /\ wireless_step' = "decide"
    /\ UNCHANGED <<wireless_left, ctrl_queue, led_pin, httpd, host_name, link>>
    /\ WirelessKeep

(* Still idle: be the access point; otherwise start the mDNS responder.    *)
WirelessDecide ==
    /\ wireless_step = "decide"
    /\ IF wireless_state = "IDLE"
         THEN wireless_state' = "AP_INIT" /\ wireless_step' = "ap"
         ELSE UNCHANGED wireless_state /\ wireless_step' = "services"
    /\ UNCHANGED <<wireless_left, ctrl_queue, led_pin, httpd, host_name, link>>
    /\ WirelessKeep

(* access_point_mode_start has returned.                                   *)
WirelessAccessPoint ==
    /\ wireless_step = "ap"
    /\ wireless_state' = "AP_LISTEN" /\ wireless_step' = "services"
    /\ UNCHANGED <<wireless_left, ctrl_queue, led_pin, httpd, host_name, link>>
    /\ WirelessKeep

(* rest_endpoints_init, then httpd_init.                                   *)
HomePage == IF wireless_state = "AP_LISTEN" THEN "wifi" ELSE "portal"

WirelessServices ==
    /\ wireless_step = "services" /\ wireless_step' = "serve"
    /\ httpd' = HomePage
    /\ UNCHANGED <<wireless_state, wireless_left, ctrl_queue, led_pin, host_name,
                   link>>
    /\ WirelessKeep

(* The loop at the end: one LED message after the other.                   *)
WirelessServe ==
    /\ wireless_step = "serve" /\ ctrl_queue # <<>>
    /\ led_pin' = Head(ctrl_queue) /\ ctrl_queue' = Tail(ctrl_queue)
    /\ UNCHANGED <<wireless_state, wireless_step, wireless_left, httpd, host_name,
                   link>>
    /\ WirelessKeep

WirelessTask ==
    \/ WirelessBoot \/ WirelessStart \/ WirelessConnect \/ WirelessGiveUp
    \/ WirelessDecide \/ WirelessAccessPoint \/ WirelessServices \/ WirelessServe

-----------------------------------------------------------------------------
(* led_interface_task                                                      *)

Blinks == {"AP_INIT", "AP_LISTEN", "STA_INIT"}

LedWanted ==
    CASE wireless_state \in Blinks -> ~led_state
      [] wireless_state = "STA_LISTEN" -> TRUE
      [] OTHER -> FALSE

(* Bug for WirelessInv: an even length, so a full queue ends with LED_OFF. *)
CtrlQueueEven == 4

(* xQueueCreate(5, ...).                                                   *)
CtrlQueueLength == 5

(* xQueueSend with no wait: a full queue drops the message.                *)
LedTask ==
    /\ wireless_step \notin {"boot", "dead"}
    /\ led_state' = LedWanted /\ led_saw' = wireless_state
    /\ ctrl_queue' = IF LedWanted # led_state /\ Len(ctrl_queue) < CtrlQueueLength
                       THEN Append(ctrl_queue, LedWanted) ELSE ctrl_queue
    /\ UNCHANGED <<wireless_state, wireless_step, wireless_left, wireless_config,
                   wireless_saved, led_pin, httpd, host_name, link>>

-----------------------------------------------------------------------------
(* The network and the REST handler                                        *)

(* Bug for ComesUp: the unit announces the name that is taken once more.   *)
MdnsConflictKept ==
    /\ wireless_state = "STA_LISTEN" /\ wireless_step \in {"services", "serve"}
    /\ host_name \in Taken
    /\ UNCHANGED <<wireless_state, wireless_step, wireless_left, ctrl_queue, led_pin,
                   httpd, link, host_name>>
    /\ WirelessKeep

(* _mdns_name_result_cb: a conflict on the host name; the counter is 8 bit *)
(* wide.                                                                   *)
MdnsConflict ==
    /\ wireless_state = "STA_LISTEN" /\ wireless_step \in {"services", "serve"}
    /\ host_name \in Taken
    /\ host_name' = (host_name + 1) % Names
    /\ UNCHANGED <<wireless_state, wireless_step, wireless_left, ctrl_queue, led_pin,
                   httpd, link>>
    /\ WirelessKeep

(* The network comes and goes; nothing leaves STA_LISTEN again.            *)
LinkChanges ==
    /\ wireless_state = "STA_LISTEN" /\ link' \in {"up", "noip", "down"}
    /\ UNCHANGED <<wireless_state, wireless_step, wireless_left, ctrl_queue, led_pin,
                   httpd, host_name>>
    /\ WirelessKeep

(* http_rest_wireless_config: in RAM, and with ee in the EEPROM; it counts *)
(* from the next boot on.                                                  *)
WirelessConfigure(settings, save) ==
    /\ httpd # "NONE"
    /\ wireless_config' = settings
    /\ wireless_saved' = IF save THEN settings ELSE wireless_saved
    /\ UNCHANGED <<wireless_state, wireless_step, wireless_left, ctrl_queue,
                   led_state, led_saw, led_pin, httpd, host_name, link>>

WirelessRestart ==
    /\ wireless_step \in {"serve", "dead"}
    /\ wireless_state' = "NOT_INITIALIZED" /\ wireless_step' = "boot"
    /\ wireless_left' = 0 /\ ctrl_queue' = <<>> /\ led_state' = FALSE
    /\ led_saw' = "NOT_INITIALIZED" /\ led_pin' = FALSE /\ httpd' = "NONE"
    /\ host_name' = 1 /\ link' = "down"
    /\ wireless_config' = wireless_saved /\ UNCHANGED wireless_saved

WirelessNext ==
    \/ WirelessTask \/ LedTask \/ MdnsConflict \/ LinkChanges \/ WirelessRestart
    \/ \E settings \in Settings, save \in BOOLEAN : WirelessConfigure(settings, save)

WirelessSpec == WirelessInit /\ [][WirelessNext]_wireless_vars

(* The task is scheduled, cyw43's attempts and lwIP's probes come to an    *)
(* end.                                                                    *)
WirelessFairness ==
    WF_wireless_vars(WirelessTask) /\ WF_wireless_vars(MdnsConflict)

-----------------------------------------------------------------------------
(* Properties                                                              *)

(* wireless_is_network_ready, on which the trial of an update depends.     *)
IsNetworkReady == \/ wireless_state = "AP_LISTEN"
                  \/ wireless_state = "STA_LISTEN" /\ link = "up"

WirelessTypeOK ==
    /\ wireless_state \in {"NOT_INITIALIZED", "DEAD", "IDLE"} \cup Blinks \cup {"STA_LISTEN"}
    /\ wireless_step \in {"boot", "dead", "start", "connect", "decide", "ap",
                          "services", "serve"}
    /\ wireless_left \in 0..MaxTimeout
    /\ wireless_config \in Settings /\ wireless_saved \in Settings
    /\ ctrl_queue \in Seq(BOOLEAN) /\ Len(ctrl_queue) <= CtrlQueueLength
    /\ {led_state, led_pin} \subseteq BOOLEAN
    /\ host_name \in 0..Names - 1 /\ link \in {"up", "noip", "down"}

(* Where the task is says what it shows, but for the two ways to decide.   *)
StateFitsStep ==
    /\ wireless_step = "boot" => wireless_state = "NOT_INITIALIZED"
    /\ wireless_step = "dead" => wireless_state = "DEAD"
    /\ wireless_step = "start" => wireless_state = "IDLE"
    /\ wireless_step = "connect" => wireless_state = "STA_INIT"
    /\ wireless_step = "decide" => wireless_state \in {"IDLE", "STA_LISTEN"}
    /\ wireless_step = "ap" => wireless_state = "AP_INIT"
    /\ wireless_step \in {"services", "serve"} => wireless_state \in {"AP_LISTEN", "STA_LISTEN"}

ServerFits == httpd = IF wireless_step = "serve" THEN HomePage ELSE "NONE"

(* What the LED will be once the queue has been served.                    *)
LastLed == IF ctrl_queue = <<>> THEN led_pin ELSE ctrl_queue[Len(ctrl_queue)]

(* Nobody takes while the task connects, so the messages alternate and the *)
(* first and the fifth are LED_ON.                                         *)
LedFits ==
    /\ led_saw = "STA_LISTEN" => led_state /\ wireless_state = "STA_LISTEN"
    /\ wireless_step # "serve" /\ Len(ctrl_queue) < CtrlQueueLength =>
         /\ led_state <=> LastLed
         /\ led_state <=> Len(ctrl_queue) % 2 = 1
    /\ wireless_step # "serve" \/ wireless_state = "STA_LISTEN" =>
         (led_state \/ Len(ctrl_queue) = CtrlQueueLength => LastLed)

(* The wireless task and the LED task (wireless.c): the server listens     *)
(* only on a network that is there, with the form for the Wi-Fi settings   *)
(* at / exactly when the unit is its own access point; and although LED    *)
(* messages are dropped while the task connects, the LED of a unit that    *)
(* has joined a network is on once the queue has been served.              *)
WirelessInv ==
    /\ WirelessTypeOK /\ StateFitsStep /\ ServerFits /\ LedFits
    /\ httpd # "NONE" => wireless_state \in {"AP_LISTEN", "STA_LISTEN"}
    /\ httpd = "wifi" => IsNetworkReady
    /\ httpd = "portal" => wireless_state = "STA_LISTEN"
    /\ led_saw = "STA_LISTEN" /\ wireless_step = "serve" /\ ctrl_queue = <<>> => led_pin

Reachable ==
    /\ httpd # "NONE"
    /\ \/ wireless_state = "AP_LISTEN"
       \/ wireless_state = "STA_LISTEN" /\ host_name \notin Taken

(* Whatever the stored settings, also a wrong password or a timeout of 0,  *)
(* every boot with a working radio ends with a server one can reach, on    *)
(* the configured network under a name of its own or on an access point    *)
(* ("start the AP mode", wireless.c:374), unless it is restarted first.    *)
ComesUp == wireless_step = "start" ~> (Reachable \/ wireless_step = "boot")

=============================================================================
