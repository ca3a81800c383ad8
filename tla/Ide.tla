-------------------------------- MODULE Ide --------------------------------
(***************************************************************************)
(* One channel of device/ide.c: threads that call ide_read and ide_write   *)
(* on the two disks of the channel, the disk interrupt and, as far as the  *)
(* driver sees it, the disk controller.  io[t] is the position of thread t *)
(* in the driver, req[t] the call it executes.                             *)
(*                                                                         *)
(* All of this runs with interrupts on: every port access and every access *)
(* to expecting_intr is a step of its own, and the interrupt may come late.*)
(*                                                                         *)
(* The controller (external) raises one interrupt per sector: for a read   *)
(* when the sector is ready, for a write when it has been taken.  Sectors  *)
(* after the first follow without delay, as the one insw or outsw for the  *)
(* whole command expects.                                                  *)
(***************************************************************************)
EXTENDS Sync

CONSTANTS
  Channel,    \* channel->lock
  disk_done,  \* channel->disk_done
  Disks,      \* the values of dev_no
  max_lba,    \* as in ide.c
  SecMax,     \* most sectors of one command, 256 in ide.c
  TimeLimit,  \* time_limit of busy_wait, 30000 in ide.c
  IrqOpen,    \* whether pic_init leaves the line of this channel unmasked
  Requests,   \* the calls: records with op, hd, lba, cnt
  Clients     \* the threads that make them

ASSUME IdeAssumption ==
  /\ Locks = {Channel} /\ Semas = {disk_done}
  /\ max_lba \in Nat /\ SecMax \in Nat \ {0} /\ TimeLimit \in Nat \ {0}
  /\ IrqOpen \in BOOLEAN /\ 0 \in Disks
  /\ Clients \subseteq Threads \ {Idle, Main}
  /\ Requests \subseteq [op : {"read", "write"}, hd : Disks,
                         lba : 0 .. max_lba, cnt : Nat \ {0}]

VARIABLES
  io, req,    \* position in ide.c and the call, per thread
  done,       \* sec_done, per thread
  limit,      \* time_limit, per thread
  rung,       \* threads in mtime_sleep for whom the clock has struck
  buf,        \* the sectors read by the call, per thread
  expecting,  \* channel->expecting_intr
  reg,        \* the registers device, lba and sector count of the channel
  dev,        \* the command in execution
  irq,        \* an interrupt of the channel is pending at the 8259A
  disk,       \* what is stored
  slow        \* busy_wait has given up on a busy disk

idevars == <<io, req, done, limit, rung, buf, expecting, reg, dev, irq, disk, slow>>
vars == <<sched, value, waiters, holder, repeat, lk, la, cli, idlepc,
          io, req, done, limit, rung, buf, expecting, reg, dev, irq, disk, slow>>

(* The i-th sector of what t writes; Garbage is what a port read yields    *)
(* when the controller has no data.                                        *)
Sector(t, i) == <<t, i>>
Garbage == <<NoThread, -1>>
Contents == (Threads \cup {NoThread}) \X Int
NoReq == [op |-> "none", hd |-> 0, lba |-> 0, cnt |-> 0]
Identify == [op |-> "identify", hd |-> 0, lba |-> 0, cnt |-> 1]

IoPC == {"out", "disk", "sector", "expect", "cmd", "down", "poll", "sleep", "data",
         "next", "unlock"}

TypeOK ==
  /\ SyncTypeOK
  /\ io \in [Threads -> IoPC]
  /\ req \in [Threads -> Requests \cup {NoReq, Identify}]
  /\ done \in [Threads -> Nat]
  /\ limit \in [Threads -> 0 .. TimeLimit]
  /\ rung \subseteq Threads
  /\ expecting \in BOOLEAN /\ irq \in BOOLEAN /\ slow \in BOOLEAN
  /\ buf \in [Threads -> Seq(Contents)] /\ disk \in [Disks -> [0 .. max_lba -> Contents]]
  /\ reg \in [hd : Disks, lba : Nat, cnt : 0 .. SecMax - 1]
  /\ dev \in [op : {"none", "read", "write", "identify"}, hd : Disks, lba : Nat,
              left : 0 .. SecMax, st : {"idle", "busy", "drq"}]

(* Main is in ide_init, about to identify the first disk. *)
Init ==
  /\ SyncInit
  /\ io = [t \in Threads |-> IF t = Main THEN "disk" ELSE "out"]
  /\ req = [t \in Threads |-> IF t = Main THEN Identify ELSE NoReq]
  /\ done = [t \in Threads |-> 0]
  /\ limit = [t \in Threads |-> 0]
  /\ rung = {}
  /\ buf = [t \in Threads |-> <<>>]
  /\ expecting = FALSE /\ irq = FALSE /\ slow = FALSE
  /\ reg = [hd |-> 0, lba |-> 0, cnt |-> 0]
  /\ dev = [op |-> "none", hd |-> 0, lba |-> 0, left |-> 0, st |-> "idle"]
  /\ disk = [h \in Disks |-> [l \in 0 .. max_lba |-> <<NoThread, l>>]]

-----------------------------------------------------------------------------
InIde(t, p) == At(t, "out") /\ io[t] = p
IdeGoto(t, p) == io' = [io EXCEPT ![t] = p]

(* A step that touches nothing of sync.c and thread.c. *)
Local == UNCHANGED syncvars

(* The sectors of the command in execution: sec_every. *)
Every(t) ==
  IF done[t] + SecMax <= req[t].cnt THEN SecMax ELSE req[t].cnt - done[t]

(* The variables of a thread that is not in ide.c. *)
Forget(t) ==
  /\ req' = [req EXCEPT ![t] = NoReq]
  /\ done' = [done EXCEPT ![t] = 0]
  /\ limit' = [limit EXCEPT ![t] = 0]
  /\ rung' = rung \ {t}
  /\ buf' = [buf EXCEPT ![t] = <<>>]

(* A faulty variant: the channel lock is not taken. *)
BeginUnlocked(t) ==
  /\ t \in Clients /\ t \notin cli
  /\ InIde(t, "out") /\ io[Main] = "out"
  /\ \E r \in Requests : req' = [req EXCEPT ![t] = r]
  /\ IdeGoto(t, "disk")
  /\ Local
  /\ UNCHANGED <<done, limit, rung, buf, expecting, reg, dev, irq, disk, slow>>

(* A call of ide_read or ide_write, up to lock_acquire.  The file system   *)
(* makes calls only after ide_init.                                        *)
Begin(t) ==
  /\ t \in Clients /\ t \notin cli
  /\ InIde(t, "out") /\ io[Main] = "out"
  /\ \E r \in Requests : req' = [req EXCEPT ![t] = r]
  /\ lock_acquire(t, Channel)
  /\ IdeGoto(t, "disk")
  /\ UNCHANGED <<cli, done, limit, rung, buf, expecting, reg, dev, irq, disk, slow>>

(* identify_disk goes on with the command. *)
select_disk(t) ==
  /\ InIde(t, "disk")
  /\ reg' = [reg EXCEPT !.hd = req[t].hd]
  /\ IdeGoto(t, IF req[t].op = "identify" THEN "expect" ELSE "sector")
  /\ Local
  /\ UNCHANGED <<req, done, limit, rung, buf, expecting, dev, irq, disk, slow>>

(* A faulty variant: the second command starts at the first sector again. *)
select_sectorAgain(t) ==
  /\ InIde(t, "sector")
  /\ reg' = [hd |-> req[t].hd, lba |-> req[t].lba, cnt |-> Every(t) % SecMax]
  /\ IdeGoto(t, "expect")
  /\ Local
  /\ UNCHANGED <<req, done, limit, rung, buf, expecting, dev, irq, disk, slow>>

(* The register for the count has 8 bits: 256 is written as 0. *)
select_sector(t) ==
  /\ InIde(t, "sector")
  /\ Assert(req[t].lba + done[t] < max_lba)
  /\ reg' = [hd |-> req[t].hd, lba |-> req[t].lba + done[t], cnt |-> Every(t) % SecMax]
  /\ IdeGoto(t, "expect")
  /\ UNCHANGED <<value, waiters, holder, repeat, lk, la, cli, idlepc,
                 req, done, limit, rung, buf, expecting, dev, irq, disk, slow>>

(* A faulty variant: the handler is not told to expect an interrupt. *)
ExpectNothing(t) ==
  /\ InIde(t, "expect")
  /\ IdeGoto(t, "cmd")
  /\ Local
  /\ UNCHANGED <<req, done, limit, rung, buf, expecting, reg, dev, irq, disk, slow>>

(* cmd_out: first expecting_intr ... *)
Expect(t) ==
  /\ InIde(t, "expect")
  /\ expecting' = TRUE
  /\ IdeGoto(t, "cmd")
  /\ Local
  /\ UNCHANGED <<req, done, limit, rung, buf, reg, dev, irq, disk, slow>>

(* ... then the command register.  A write needs the data first and enters *)
(* busy_wait at once; read and identify wait for the interrupt first.      *)
Command(t) ==
  /\ InIde(t, "cmd")
  /\ dev' = [op |-> req[t].op, hd |-> reg.hd, lba |-> reg.lba, st |-> "busy",
             left |-> IF req[t].op = "identify" THEN 1
                      ELSE IF reg.cnt = 0 THEN SecMax ELSE reg.cnt]
  /\ IdeGoto(t, IF req[t].op = "write" THEN "poll" ELSE "down")
  /\ limit' = [limit EXCEPT ![t] = TimeLimit - 1]
  /\ Local
  /\ UNCHANGED <<req, done, rung, buf, expecting, reg, irq, disk, slow>>

(* A faulty variant: a write does not wait for its interrupt. *)
DownNoWait(t) ==
  /\ InIde(t, "down")
  /\ IF req[t].op = "write" THEN Local ELSE Call(t, "down", disk_done) /\ UNCHANGED cli
  /\ IdeGoto(t, IF req[t].op = "write" THEN "next" ELSE "poll")
  /\ UNCHANGED <<req, done, limit, rung, buf, expecting, reg, dev, irq, disk, slow>>

(* sema_down(&disk_done) *)
Down(t) ==
  /\ InIde(t, "down")
  /\ Call(t, "down", disk_done)
  /\ IdeGoto(t, IF req[t].op = "write" THEN "next" ELSE "poll")
  /\ UNCHANGED <<cli, req, done, limit, rung, buf, expecting, reg, dev, irq, disk, slow>>

(* busy_wait.  `time_limit -= 10 >= 0` subtracts the value of the          *)
(* comparison, which is 1, and ends the loop at 0.                         *)
Poll(t) ==
  /\ InIde(t, "poll")
  /\ \/ /\ limit[t] = 0
        /\ sched' = Panic(sched) /\ slow' = TRUE
        /\ UNCHANGED <<io, rung>>
     \/ /\ limit[t] # 0 /\ dev.st # "busy"
        /\ Assert(dev.st = "drq")
        /\ IdeGoto(t, "data")
        /\ UNCHANGED <<rung, slow>>
     \/ /\ limit[t] # 0 /\ dev.st = "busy"
        /\ IdeGoto(t, "sleep")
        /\ rung' = rung \ {t}
        /\ UNCHANGED <<sched, slow>>
  /\ UNCHANGED <<value, waiters, holder, repeat, lk, la, cli, idlepc,
                 req, done, limit, buf, expecting, reg, dev, irq, disk>>

(* mtime_sleep(10) of busy_wait is a sleep of one clock tick. *)
ticks_to_sleep(t) ==
  /\ InIde(t, "sleep")
  /\ \/ /\ t \notin rung
        /\ Yield(t)
        /\ UNCHANGED <<io, limit>>
     \/ /\ t \in rung
        /\ limit' = [limit EXCEPT ![t] = @ - 1]
        /\ IdeGoto(t, "poll")
        /\ Local
  /\ UNCHANGED <<req, done, rung, buf, expecting, reg, dev, irq, disk, slow>>

(* One sector of the insw or outsw, which an interrupt may cut in two.     *)
read_from_sector(t) ==
  /\ InIde(t, "data") /\ req[t].op # "write"
  /\ LET ready == dev.st = "drq" /\ dev.op # "write" IN
     /\ buf' = [buf EXCEPT ![t] = Append(@, IF ready THEN disk[dev.hd][dev.lba] ELSE Garbage)]
     /\ dev' = IF ~ready THEN dev
               ELSE [dev EXCEPT !.lba = @ + 1, !.left = @ - 1,
                                !.st = IF dev.left = 1 THEN "idle" ELSE "drq"]
     /\ irq' = (irq \/ (ready /\ dev.left > 1))
  /\ IdeGoto(t, IF Len(buf'[t]) = done[t] + Every(t) THEN "next" ELSE "data")
  /\ Local
  /\ UNCHANGED <<req, done, limit, rung, expecting, reg, disk, slow>>

(* buf[t] holds the sectors already written. *)
write2sector(t) ==
  /\ InIde(t, "data") /\ req[t].op = "write"
  /\ LET ready == dev.st = "drq" /\ dev.op = "write"
         s == Sector(t, Len(buf[t])) IN
     /\ buf' = [buf EXCEPT ![t] = Append(@, s)]
     /\ disk' = IF ready THEN [disk EXCEPT ![dev.hd][dev.lba] = s] ELSE disk
     /\ dev' = IF ~ready THEN dev
               ELSE [dev EXCEPT !.lba = @ + 1, !.left = @ - 1,
                                !.st = IF dev.left = 1 THEN "idle" ELSE "drq"]
     /\ irq' = (irq \/ ready)
  /\ IdeGoto(t, IF Len(buf'[t]) = done[t] + Every(t) THEN "down" ELSE "data")
  /\ Local
  /\ UNCHANGED <<req, done, limit, rung, expecting, reg, slow>>

(* sec_done += sec_every and the test of the loop. *)
NextCommand(t) ==
  /\ InIde(t, "next")
  /\ \/ /\ req[t].op = "identify"
        /\ IdeGoto(t, "out")
        /\ Forget(t)
     \/ /\ req[t].op # "identify"
        /\ done' = [done EXCEPT ![t] = @ + Every(t)]
        /\ IdeGoto(t, IF done'[t] < req[t].cnt THEN "sector" ELSE "unlock")
        /\ UNCHANGED <<req, limit, rung, buf>>
  /\ Local
  /\ UNCHANGED <<expecting, reg, dev, irq, disk, slow>>

(* lock_release; the local variables of the call are gone. *)
Unlock(t) ==
  /\ InIde(t, "unlock")
  /\ lock_release(t, Channel)
  /\ IdeGoto(t, "out")
  /\ Forget(t)
  /\ UNCHANGED <<cli, expecting, reg, dev, irq, disk, slow>>

-----------------------------------------------------------------------------
(* The controller has found the first sector, or is ready to take it. *)
Ready ==
  /\ ~sched.panic /\ dev.st = "busy"
  /\ dev' = [dev EXCEPT !.st = "drq"]
  /\ irq' = (irq \/ dev.op # "write")
  /\ Local
  /\ UNCHANGED <<io, req, done, limit, rung, buf, expecting, reg, disk, slow>>

(* A faulty variant: every interrupt raises disk_done. *)
intr_hd_handlerAlways ==
  /\ ~sched.panic /\ IntrOn /\ irq /\ IrqOpen
  /\ irq' = FALSE
  /\ expecting' = FALSE
  /\ Up(disk_done)
  /\ LeaveHalt
  /\ UNCHANGED <<holder, repeat, lk, la, cli,
                 io, req, done, limit, rung, buf, reg, dev, disk, slow>>

intr_hd_handler ==
  /\ ~sched.panic /\ IntrOn /\ irq /\ IrqOpen
  /\ irq' = FALSE
  /\ expecting' = FALSE
  /\ IF expecting THEN Up(disk_done) ELSE UNCHANGED <<sched, value, waiters>>
  /\ LeaveHalt
  /\ UNCHANGED <<holder, repeat, lk, la, cli,
                 io, req, done, limit, rung, buf, reg, dev, disk, slow>>

Clock ==
  /\ Tick
  /\ rung' = rung \cup {t \in Threads : io[t] = "sleep"}
  /\ UNCHANGED <<io, req, done, limit, buf, expecting, reg, dev, irq, disk, slow>>

Step(t) ==
  \/ Begin(t) \/ select_disk(t) \/ select_sector(t) \/ Expect(t) \/ Command(t)
  \/ Down(t) \/ Poll(t) \/ ticks_to_sleep(t)
  \/ read_from_sector(t) \/ write2sector(t) \/ NextCommand(t) \/ Unlock(t)
  \/ (kernel_thread(t) \/ SyncStep(t)) /\ UNCHANGED idevars
  \/ t = Idle /\ idle /\ UNCHANGED idevars

Next == Clock \/ Ready \/ intr_hd_handler \/ \E t \in Threads : Step(t)

Spec == Init /\ [][Next]_vars

(* As in LockClients; besides, the controller finishes its commands and    *)
(* the 8259A keeps the interrupt until the interrupt flag is on.           *)
FairSpec ==
  /\ Spec
  /\ SF_vars(Clock) /\ \A t \in Threads : SF_vars(Step(t))
  /\ WF_vars(Ready) /\ SF_vars(intr_hd_handler)

-----------------------------------------------------------------------------
(* The driver panics only when busy_wait gives up on a busy disk: a late   *)
(* or an extra interrupt never raises disk_done twice (the ASSERT of       *)
(* sema_up), and after busy_wait the controller always has data ready or   *)
(* wants some.                                                             *)
PanicsOnlyWhenSlow == sched.panic => slow

(* When a call is about to release the channel it has done what it was     *)
(* asked to do: a read has delivered the sectors of its own disk and lba,  *)
(* in order, a write has stored its own, although the commands are cut at  *)
(* SecMax sectors and other threads use the channel in between.            *)
CallDone ==
  \A t \in Threads : io[t] = "unlock" =>
    LET r == req[t] IN
    /\ Len(buf[t]) = r.cnt
    /\ \A i \in 1 .. r.cnt : buf[t][i] = disk[r.hd][r.lba + i - 1]

(* The controller is never given a command while it executes one. *)
NoCommandWhileBusy ==
  [][\A t \in Threads : Command(t) => dev.st = "idle"]_vars

(* disk_done never counts an interrupt that nobody is going to wait for:   *)
(* it is up only on behalf of the thread that holds the channel.           *)
DoneIsExpected ==
  value[disk_done] = 1 \/ expecting =>
    \E t \in Threads : io[t] \notin {"out", "disk", "sector", "unlock"}

(* Whoever has the channel, identify_disk of ide_init included, gives it   *)
(* back, whatever the interrupts of the sectors do: again and again nobody *)
(* is between select_disk and the return.                                  *)
HolderFinishes == []<>(slow \/ \A t \in Threads : io[t] \in {"out", "disk"})

(* ide_init gets past identify_disk, for each channel the machine has. *)
IdentifyFinishes == <>(io[Main] = "out" \/ slow)

(* busy_wait waits for TimeLimit ms at most (30 s): the n-th sleep of 10   *)
(* ms begins only while 10 n does not exceed it.                           *)
BusyWaitInTime ==
  \A t \in Threads : io[t] = "sleep" => 10 * (TimeLimit - limit[t]) <= TimeLimit

-----------------------------------------------------------------------------
(* The inductive invariant behind PanicsOnlyWhenSlow, CallDone,            *)
(* DoneIsExpected and NoCommandWhileBusy.                                  *)

(* select_sector asserts that a command begins before sector max_lba; for  *)
(* calls of which every sector lies before it the assertion can hold.      *)
WithinDisk == \A r \in Requests : r.lba + r.cnt <= max_lba

(* The lock is called for by ide_read and ide_write, not by identify_disk. *)
Nest ==
  [t \in Threads |-> [l \in Locks |-> IF t \in Clients /\ io[t] # "out" THEN 1 ELSE 0]]

Inside(t) == io[t] \notin {"out", "disk"}

(* The controller has the command of t and is not through with it. *)
Started(t) ==
  io[t] \in {"poll", "sleep", "data"} \/ (io[t] = "down" /\ req[t].op # "write")

(* t has announced the interrupt and has not come back from sema_down. *)
Awaits(t) ==
  \/ io[t] \in {"cmd", "down"} \/ la[t] = disk_done
  \/ req[t].op = "write" /\ io[t] \in {"poll", "sleep", "data"}

(* How many sectors of the call have been transferred. *)
Transferred(t) ==
  IF io[t] = "data" THEN done[t] <= Len(buf[t]) /\ Len(buf[t]) < done[t] + Every(t)
  ELSE Len(buf[t]) = IF io[t] = "next" \/ (io[t] = "down" /\ req[t].op = "write")
                     THEN done[t] + Every(t) ELSE done[t]

(* The sectors transferred so far are those of the call, in order. *)
Progress(t) ==
  LET r == req[t] IN
  /\ IF io[t] = "unlock" THEN done[t] = r.cnt ELSE done[t] < r.cnt
  /\ Transferred(t)
  /\ \A i \in 1 .. Len(buf[t]) : buf[t][i] = disk[r.hd][r.lba + i - 1]

(* The registers hold what the next command needs. *)
Selected(t) ==
  io[t] \in {"expect", "cmd"} =>
    /\ reg.hd = req[t].hd /\ reg.lba = req[t].lba + done[t]
    /\ req[t].op # "identify" => reg.cnt = Every(t) % SecMax

(* The controller executes the command of t, and nothing else. *)
Executes(t) ==
  IF Started(t)
  THEN /\ dev.op = req[t].op /\ dev.hd = req[t].hd /\ dev.lba = req[t].lba + Len(buf[t])
       /\ dev.left = done[t] + Every(t) - Len(buf[t])
       /\ dev.st \in IF io[t] = "data" THEN {"drq"} ELSE {"busy", "drq"}
  ELSE dev.st = "idle"

(* One interrupt is expected or counted for each sema_down, and no other. *)
Expected(t) ==
  IF Awaits(t) THEN expecting <=> value[disk_done] = 0
  ELSE ~expecting /\ value[disk_done] = 0

(* What the thread that has the channel knows. *)
Working(t) == Progress(t) /\ Selected(t) /\ Executes(t) /\ Expected(t)

(* The channel between two calls. *)
Quiet == dev.st = "idle" /\ ~expecting /\ value[disk_done] = 0

CallView(t) ==
  /\ io[t] # "out" => /\ t \in Clients \cup {Main}
                      /\ req[t] \in IF t = Main THEN {Identify} ELSE Requests
  /\ io[t] \in {"out", "disk"} => done[t] = 0 /\ buf[t] = <<>>
  /\ io[t] = "sleep" => limit[t] > 0
  /\ io[t] \in {"sector", "unlock"} => t # Main
  /\ la[t] = Channel => ~Inside(t)
  /\ la[t] = disk_done => io[t] = IF req[t].op = "write" THEN "next" ELSE "poll"
  /\ Inside(t) => Working(t)

IdeInv ==
  /\ TypeOK
  /\ IF sched.panic THEN slow ELSE LockInv(Nest) /\ Sleepers = {}
  /\ \A t \in Threads : CallView(t)
  /\ io[Main] # "out" => \A t \in Threads \ {Main} : io[t] = "out"
  /\ io[Main] = "disk" => reg.lba = 0
  /\ (\A t \in Threads : ~Inside(t)) => Quiet
=============================================================================
