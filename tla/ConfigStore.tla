---------------------------- MODULE ConfigStore ----------------------------
(***************************************************************************)
(* The configuration store: slots of the serial EEPROM written page by     *)
(* page (cat24c256_eeprom.c), the mutex around a transfer (eeprom.c), the  *)
(* size header and checksum around a configuration (common.c), and the     *)
(* tasks that load them at boot, edit them in RAM, save, erase and reboot. *)
(*                                                                         *)
(* A cell is the stored size, a field, a checksum, an erased cell or what  *)
(* a power loss leaves of a cell being programmed.  The checksum stands    *)
(* for the payload it was computed from: CRC32 is taken to tell payloads   *)
(* apart.  A firmware knows the first `size` fields: firmware may come and *)
(* go in both directions, fields are only appended.                        *)
(***************************************************************************)
EXTENDS Naturals, Sequences, SequencesExt

CONSTANTS
  BootOrder,  \* the slots, in the order main() loads them
  Clients,    \* tasks that edit and save: the menu and lwIP's thread
  Main,       \* main(), which loads before the scheduler runs
  Values, Default, Sizes,
  PageCells   \* cells of a slot that fit a page

Slots == Range(BootOrder)
Tasks == Clients \cup {Main}

Nobody == "nobody"

(* Each slot is loaded once, and some configuration is the largest.        *)
ASSUME ConfigStoreAssumption ==
  /\ BootOrder \in Seq(Slots) /\ BootOrder # <<>> /\ IsInjective(BootOrder)
  /\ Default \in Values
  /\ Sizes \subseteq Nat \ {0} /\ \E n \in Sizes : \A m \in Sizes : m <= n
  /\ PageCells \in Nat \ {0}
  /\ Main \notin Clients /\ Nobody \notin Tasks

VARIABLES
  mem,        \* mem[s]: the cells of slot s
  size,       \* fields of a configuration in the running firmware
  working,    \* working[s]: the configuration in RAM, << >> until loaded
  handlers,   \* eeprom_save_handler_head: slots of the save-all list
  unloaded,   \* slots main() has yet to load
  mutex,      \* holder of eeprom_access_mutex
  job,        \* job[t]: the save, load or erase that task t is in
  careful,    \* nobody edits while a save copies or erases while one saves, and
              \* no transfer or allocation fails
  kept        \* history: kept[s] is what the last save vouched for, if careful

vars == <<mem, size, working, handlers, unloaded, mutex, job, careful, kept>>

None == <<>>
Steps == {"idle", "sum", "copy", "lock", "page", "erase"}
Idle == [step |-> "idle", slots |-> <<>>, sum |-> None, copy |-> None, page |-> 0,
         fallback |-> FALSE]

-----------------------------------------------------------------------------
(* A slot *)

MaxSize == CHOOSE n \in Sizes : \A m \in Sizes : m <= n
Cells == 1..(MaxSize + 2)
SizeCell(n) == <<"size", n>>
FieldCell(v) == <<"field", v>>
SumCell(p) == <<"sum", p>>
Blank == <<"blank">>
Torn == <<"torn">>

Payloads(n) == [1..n -> Values]
Fields(p) == [i \in 1..Len(p) |-> FieldCell(p[i])]
Image(p, sum) == <<SizeCell(Len(p))>> \o Fields(p) \o <<SumCell(sum)>>
LegacyImage(p) == Fields(p) \o <<SumCell(p)>>

(* The n fields behind cell `from`, and what a slot holds in today's format *)
(* and in the one without a size that older firmware wrote, with n fields.  *)
AreFields(m, from, n) == \A i \in 1..n : m[from + i][1] = "field"
FieldsAt(m, from, n) == [i \in 1..n |-> m[from + i][2]]
Checks(m, from, n) == AreFields(m, from, n) /\ m[from + n + 1] = SumCell(FieldsAt(m, from, n))

StoredUnsummed(m) ==     \* Seeded fault: the checksum is not compared
  IF m[1][1] = "size" /\ AreFields(m, 1, m[1][2]) THEN FieldsAt(m, 1, m[1][2]) ELSE None
Stored(m) ==
  IF m[1][1] = "size" /\ Checks(m, 1, m[1][2]) THEN FieldsAt(m, 1, m[1][2]) ELSE None
StoredLegacy(m, n) == IF Checks(m, 0, n) THEN FieldsAt(m, 0, n) ELSE None

Resize(p, n) == [i \in 1..n |-> IF i <= Len(p) THEN p[i] ELSE Default]

-----------------------------------------------------------------------------
(* Boot *)

Format(cells) == [c \in Cells |-> IF c <= Len(cells) THEN cells[c] ELSE Blank]
Written(p) == Format(Image(p, p))

(* A board meets this firmware with an EEPROM that is blank, or written by *)
(* it, by one with other fields, or by one from before the size header.    *)
Init ==
  /\ size \in Sizes
  /\ careful \in BOOLEAN
  /\ \E p \in {None} \cup UNION {Payloads(n) : n \in Sizes}, legacy \in BOOLEAN :
       /\ mem = [s \in Slots |-> IF p = None THEN Format(<<>>)
                                 ELSE IF legacy THEN Format(LegacyImage(p)) ELSE Written(p)]
       /\ kept = [s \in Slots |-> IF ~careful \/ (legacy /\ Len(p) # size) THEN None ELSE p]
  /\ working = [s \in Slots |-> None]
  /\ handlers = <<>>
  /\ unloaded = BootOrder
  /\ mutex = Nobody
  /\ job = [t \in Tasks |-> Idle]

NextSlot(t) ==    \* task t is done with its current slot
  LET j == job[t]
  IN  job' = [job EXCEPT ![t] = IF Len(j.slots) <= 1 THEN Idle
                                ELSE [Idle EXCEPT !.step = "sum", !.slots = Tail(j.slots)]]

AddHandler(s) == handlers' = <<s>> \o handlers

(* load_config of the next slot: today's format, then the older one, then  *)
(* the defaults.  What was migrated or defaulted is saved; the module is   *)
(* on the save-all list unless it had to fall back and that save fails.    *)
Reads == IF careful THEN {TRUE} ELSE BOOLEAN

LoadInto(s, p, saves, fallback) ==
  /\ working' = [working EXCEPT ![s] = p]
  /\ job' = IF saves THEN [job EXCEPT ![Main] = [Idle EXCEPT !.step = "sum", !.slots = <<s>>,
                                                             !.fallback = fallback]]
            ELSE job
  /\ IF fallback THEN UNCHANGED handlers ELSE AddHandler(s)

UsableWiping(p) == p # None /\ Len(p) = size     \* Seeded fault: other sizes are not migrated
Usable(p) == p # None

Load ==
  /\ unloaded # <<>> /\ job[Main].step = "idle"
  /\ LET s == Head(unloaded)
         stored == Stored(mem[s])
         legacy == StoredLegacy(mem[s], size)
     IN  \E today, before \in Reads :
           \/ /\ today /\ Usable(stored)
              /\ LoadInto(s, Resize(stored, size), Len(stored) # size, FALSE)
           \/ /\ ~(today /\ Usable(stored)) /\ before /\ Usable(legacy)
              /\ LoadInto(s, legacy, TRUE, FALSE)
           \/ /\ ~(today /\ Usable(stored)) /\ ~(before /\ Usable(legacy))
              /\ LoadInto(s, Resize(None, size), TRUE, TRUE)
  /\ unloaded' = Tail(unloaded)
  /\ UNCHANGED <<mem, size, mutex, careful, kept>>

Booted == unloaded = <<>> /\ job[Main].step = "idle"

-----------------------------------------------------------------------------
(* save_config, one slot at a time *)

(* A form of the menu, or a REST handler, sets one field. *)
Edit(t, s, i, v) ==
  /\ Booted /\ job[t].step = "idle"
  /\ working[s][i] # v
  /\ careful => \A u \in Tasks : ~(job[u].step = "copy" /\ Head(job[u].slots) = s)
  /\ working' = [working EXCEPT ![s][i] = v]
  /\ UNCHANGED <<mem, size, handlers, unloaded, mutex, job, careful, kept>>

(* A module saves its own slot, or eeprom_save_all walks the list. *)
BeginSave(t, slots) ==
  /\ Booted /\ job[t].step = "idle" /\ slots # <<>>
  /\ careful => \A u \in Tasks : job[u].step # "erase"
  /\ job' = [job EXCEPT ![t] = [Idle EXCEPT !.step = "sum", !.slots = slots]]
  /\ UNCHANGED <<mem, size, working, handlers, unloaded, mutex, careful, kept>>

Sum(t) ==
  /\ job[t].step = "sum"
  /\ job' = [job EXCEPT ![t].step = "copy", ![t].sum = working[Head(job[t].slots)]]
  /\ UNCHANGED <<mem, size, working, handlers, unloaded, mutex, careful, kept>>

Copy(t) ==
  /\ job[t].step = "copy"
  /\ job' = [job EXCEPT ![t].step = "lock", ![t].copy = working[Head(job[t].slots)]]
  /\ UNCHANGED <<mem, size, working, handlers, unloaded, mutex, careful, kept>>

NoMemory(t) ==
  /\ ~careful /\ job[t].step = "copy"
  /\ NextSlot(t)
  /\ UNCHANGED <<mem, size, working, handlers, unloaded, mutex, careful, kept>>

(* eeprom_write takes the mutex, unless the scheduler does not run yet. *)
LockUntaken(t) ==     \* Seeded fault: no task takes the mutex
  /\ job[t].step = "lock"
  /\ job' = [job EXCEPT ![t].step = "page"]
  /\ UNCHANGED <<mem, size, working, handlers, unloaded, mutex, careful, kept>>
Lock(t) ==
  /\ job[t].step = "lock"
  /\ IF t = Main THEN UNCHANGED mutex ELSE mutex = Nobody /\ mutex' = t
  /\ job' = [job EXCEPT ![t].step = "page"]
  /\ UNCHANGED <<mem, size, working, handlers, unloaded, careful, kept>>

(* One page: its cells take what `with` gives them. *)
Page(s, n, with) ==
  mem' = [mem EXCEPT ![s] = [c \in Cells |->
            IF c > n * PageCells /\ c <= (n + 1) * PageCells /\ c <= Len(with) THEN with[c] ELSE @[c]]]

Buffer(t) == Image(job[t].copy, job[t].sum)

LastPage(t) == (job[t].page + 1) * PageCells >= Len(Buffer(t))

(* The transfer is over: the mutex is given back, and the task reports.  A *)
(* client's save vouches for its copy, main()'s for what it has resized,   *)
(* and for the defaults it only put where nothing was.                     *)
Finish(t, ok) ==
  LET j == job[t]  s == Head(j.slots)
  IN  /\ mutex' = IF t = Main THEN mutex ELSE Nobody
      /\ NextSlot(t)
      /\ IF j.fallback /\ ok THEN AddHandler(s) ELSE UNCHANGED handlers
      /\ kept' = [kept EXCEPT ![s] = IF ~careful THEN None
                                     ELSE IF t # Main THEN j.copy
                                     ELSE IF @ = None THEN None ELSE Resize(@, size)]

WritePage(t) ==
  /\ job[t].step = "page"
  /\ Page(Head(job[t].slots), job[t].page, Buffer(t))
  /\ IF LastPage(t) THEN Finish(t, TRUE)
     ELSE job' = [job EXCEPT ![t].page = @ + 1] /\ UNCHANGED <<mutex, handlers, kept>>
  /\ UNCHANGED <<size, working, unloaded, careful>>

PageFails(t) ==
  /\ ~careful /\ job[t].step = "page"
  /\ Finish(t, FALSE)
  /\ UNCHANGED <<mem, size, working, unloaded, careful>>

-----------------------------------------------------------------------------
(* Erase, restart, power loss *)

(* cat24c256_eeprom_erase walks all pages, does not take the mutex and     *)
(* does not look at errors; the menu and http_rest_system_control call it, *)
(* and may restart the board after it.  Bound: one erase at a time.        *)
BeginErase(t) ==
  /\ Booted /\ job[t].step = "idle"
  /\ \A u \in Tasks : job[u].step # "erase"
  /\ careful => \A u \in Tasks : job[u].step = "idle"
  /\ job' = [job EXCEPT ![t] = [Idle EXCEPT !.step = "erase", !.slots = BootOrder]]
  /\ UNCHANGED <<mem, size, working, handlers, unloaded, mutex, careful, kept>>

SlotErased(t) == (job[t].page + 1) * PageCells >= MaxSize + 2

Blanks == [c \in Cells |-> Blank]
ErasePage(t) ==
  LET j == job[t]  s == Head(j.slots)
  IN  /\ j.step = "erase"
      /\ \/ Page(s, j.page, Blanks)
         \/ ~careful /\ UNCHANGED mem
      /\ kept' = [kept EXCEPT ![s] = None]
      /\ job' = [job EXCEPT ![t] = IF ~SlotErased(t) THEN [j EXCEPT !.page = @ + 1]
                                   ELSE IF Len(j.slots) = 1 THEN Idle
                                   ELSE [j EXCEPT !.page = 0, !.slots = Tail(@)]]
      /\ UNCHANGED <<size, working, handlers, unloaded, mutex, careful>>

(* What the slots have lost when everything stops: a slot being written, and *)
(* one in the older format that the next firmware does not know.             *)
Writing(s) == \E t \in Tasks : /\ job[t].step = "page" /\ job[t].page > 0
                               /\ Head(job[t].slots) = s

Stop(next) ==
  /\ size' = next
  /\ working' = [s \in Slots |-> None]
  /\ handlers' = <<>>
  /\ unloaded' = BootOrder
  /\ mutex' = Nobody
  /\ job' = [t \in Tasks |-> Idle]
  /\ UNCHANGED careful

(* Power loss, a reboot request or the watchdog, between two page writes;  *)
(* the firmware that starts may be another one.                            *)
Restart(next) ==
  /\ Stop(next)
  /\ kept' = [s \in Slots |-> IF Writing(s) \/ (Stored(mem[s]) = None /\ next # size)
                              THEN None ELSE kept[s]]
  /\ UNCHANGED mem

(* Power is lost while a page is programmed or erased. *)
TearPage(t) ==
  LET s == Head(job[t].slots)
      touched == IF job[t].step = "page" THEN 1..Len(Buffer(t)) ELSE Cells
  IN  /\ job[t].step \in {"page", "erase"}
      /\ Stop(size)
      /\ Page(s, job[t].page, [c \in touched |-> Torn])
      /\ kept' = [r \in Slots |-> IF r = s \/ Writing(r) THEN None ELSE kept[r]]

Next ==
  \/ Load
  \/ \E t \in Clients, s \in Slots, i \in 1..size, v \in Values : Edit(t, s, i, v)
  \/ \E t \in Clients : \/ \E s \in Slots : BeginSave(t, <<s>>)
                        \/ BeginSave(t, handlers)
                        \/ BeginErase(t)
  \/ \E t \in Tasks : \/ Sum(t) \/ Copy(t) \/ NoMemory(t) \/ Lock(t)
                      \/ WritePage(t) \/ PageFails(t) \/ ErasePage(t) \/ TearPage(t)
  \/ \E next \in Sizes : Restart(next)

Spec == Init /\ [][Next]_vars

-----------------------------------------------------------------------------
(* Properties *)

Vouched(m) == {m[c][2] : c \in {c \in Cells : m[c][1] = "sum"}}
Durable(m) ==
  IF Stored(m) # None THEN Stored(m)
  ELSE LET N == {n \in Sizes : StoredLegacy(m, n) # None}
       IN  IF N = {} THEN None ELSE StoredLegacy(m, CHOOSE n \in N : TRUE)

Configurations == UNION {Payloads(n) : n \in Sizes}
CellValues == {Blank, Torn} \cup {SizeCell(n) : n \in Sizes}
              \cup {FieldCell(v) : v \in Values} \cup {SumCell(p) : p \in Configurations}
Jobs == [step : Steps, slots : Seq(Slots), sum : {None} \cup Configurations,
         copy : {None} \cup Configurations, page : Nat, fallback : BOOLEAN]

TypesOK ==
  /\ mem \in [Slots -> [Cells -> CellValues]]
  /\ size \in Sizes
  /\ working \in [Slots -> {None} \cup Payloads(size)]
  /\ handlers \in Seq(Slots)
  /\ unloaded \in Seq(Slots) /\ IsInjective(unloaded)
  /\ mutex \in Clients \cup {Nobody}
  /\ job \in [Tasks -> Jobs]
  /\ careful \in BOOLEAN
  /\ kept \in [Slots -> {None} \cup Configurations]

(* A slot has a working copy once it is loaded, and is on the list later.  *)
SlotsOK ==
  /\ \A s \in Slots : working[s] = None <=> s \in Range(unloaded)
  /\ Range(handlers) \cap Range(unloaded) = {}

(* The mutex is held exactly by the client inside a transfer; a job is     *)
(* about loaded slots and of the firmware's size; main() and the clients   *)
(* do not overlap (cat24c256_write has an early return, load_config two    *)
(* branches that resize).                                                  *)
JobOK(t) ==
  LET j == job[t]
  IN  /\ mutex = t <=> t # Main /\ j.step = "page"
      /\ j.step # "idle" => j.slots # <<>> /\ Range(j.slots) \cap Range(unloaded) = {}
      /\ j.step # "idle" /\ t # Main => unloaded = <<>> /\ job[Main].step = "idle"
      /\ j.step \in {"sum", "copy", "lock"} => j.page = 0
      /\ j.step \in {"copy", "lock", "page"} => j.sum \in Payloads(size)
      /\ j.step \in {"lock", "page"} => j.copy \in Payloads(size)

(* While all are careful: what a save copies is what it has summed; what it *)
(* has written is a prefix of its buffer; main() saves what was kept, for   *)
(* the size of its firmware; and an erase is alone.                         *)
SaveOK(t) ==
  LET j == job[t]  s == Head(j.slots)
  IN  /\ j.step = "copy" => j.sum = working[s]
      /\ j.step \in {"lock", "page"} => j.sum = j.copy
      /\ j.step = "page" => \A c \in 1..Len(Buffer(t)) :
                              c <= j.page * PageCells => mem[s][c] = Buffer(t)[c]
      /\ t = Main /\ j.step # "idle" =>
           /\ Len(j.slots) = 1
           /\ kept[s] # None => /\ working[s] = Resize(kept[s], size)
                                /\ j.step \in {"lock", "page"} => j.copy = working[s]
      /\ j.step = "erase" => \A u \in Tasks \ {t} : job[u].step = "idle"

(* A slot that nobody is writing reads as it was kept; one without a size  *)
(* header reads so only in a firmware of that size.                        *)
ReadsAsKept ==
  careful =>
    \A s \in Slots : kept[s] # None /\ ~Writing(s) =>
      /\ Durable(mem[s]) = kept[s]
      /\ Stored(mem[s]) = None => Len(kept[s]) = size

StoreInv ==
  /\ TypesOK /\ SlotsOK /\ ReadsAsKept
  /\ \A t \in Tasks : JobOK(t) /\ (careful => SaveOK(t))

(* The comment above load_config: what is loaded is a configuration that   *)
(* was once saved as a whole, or the defaults, whatever is interrupted,    *)
(* fails or overlaps.                                                      *)
Register == INSTANCE ConfigRegister WITH
  vouched <- [s \in Slots |-> Vouched(mem[s])],
  durable <- [s \in Slots |-> Durable(mem[s])],
  taken <- [t \in Tasks |-> IF job[t].step \in {"copy", "lock", "page"}
                            THEN <<Head(job[t].slots), job[t].sum>> ELSE None]
ImplementsRegister == Register!Spec

(* A save that reported success survives restarts, power losses during the *)
(* writes of other slots, and firmware with more or fewer fields           *)
(* (common.c:112-124), as long as nothing fails and nobody edits or erases *)
(* in the middle of a save.                                                *)
SavedIsDurable ==
  careful =>
    \A s \in Slots : kept[s] # None /\ ~Writing(s) =>
       /\ Durable(mem[s]) # None
       /\ Resize(Durable(mem[s]), size) = Resize(kept[s], size)
=============================================================================
