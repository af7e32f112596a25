------------------------------ MODULE Keyboard ------------------------------
(***************************************************************************)
(* The keyboard driver of mailbox/keyboard.c on the mailbox of module      *)
(* Mailbox.  Keys put scan codes into the keyboard controller; irq1 reads  *)
(* one, keeps the shift state and puts characters into the mailbox, from   *)
(* which processes take them with getchar().                               *)
(*                                                                         *)
(* There is one processor.  `off' is the process, or the interrupt handler *)
(* Irq, that runs with interrupts off (disable_count # 0 while it runs):   *)
(* until it blocks or leaves its critical section nobody else takes a      *)
(* step.  The kernel is taken to keep a disable_count for each process,    *)
(* so a process that blocks turns interrupts on for the next one and has   *)
(* them off again when it comes back.                                      *)
(***************************************************************************)
EXTENDS Mailbox

CONSTANTS Irq,          \* the interrupt handler
          Keys,         \* the keys that are pressed
          MaxScanCodes  \* bound on what the keyboard controller holds

\* Who uses the mailbox: the handler puts characters in, processes take them out.
KeyboardSetup ==
  /\ Threads = Receivers \cup {Irq} /\ Irq \notin Receivers /\ Senders = {Irq}
  /\ MaxScanCodes \in Nat \ {0}

VARIABLES held,          \* the keys with a shift bit that are held down
          codes,         \* scan codes in the controller, oldest first
          shift_status,  \* the set of its bits
          reading,       \* is the process in getchar()?
          irq,           \* where the handler is: "none", "stat" or "send" of putchar()
          character,     \* what it is to put into the mailbox
          off

keyvars == <<held, codes, shift_status, reading, irq, character, off>>

kvars == <<mboxvars, keyvars>>

-----------------------------------------------------------------------------
\* scan_to_ascii[key].handler.  The two Control keys (and the two Alt keys)
\* have one scan code, since the prefix 0xe0 is itself taken for the release of
\* a key that is not in the table: bit 7 is masked off before it is looked for.
Handler(key) ==
  CASE key \in {"leftControl", "rightControl"} -> "CONTROL"
    [] key \in {"leftAlt", "rightAlt"}         -> "ALT"
    [] key = "leftShift"                       -> "LEFT_SHIFT"
    [] key = "rightShift"                      -> "RIGHT_SHIFT"
    [] key = "capsLock"                        -> "CAPS_SHIFT"
    [] key \in {"escape", "numLock", "prefix"} -> "ignored"
    [] OTHER                                   -> "normal"

ShiftBits == {"RIGHT_SHIFT", "LEFT_SHIFT", "CONTROL", "ALT"}

\* The three characters of a key
no_shift == 1

shift == 2

control == 3

\* normal_handler(): the character that is returned for a shift state
Ascii(bits) ==
  CASE bits \in {{"LEFT_SHIFT"}, {"RIGHT_SHIFT"}, {"CAPS_SHIFT"}} -> shift
    [] bits = {"CONTROL"} -> control
    [] bits = {}          -> no_shift
    [] OTHER                -> 0

MSG_CHAR_SIZE == HEADER + 1

-----------------------------------------------------------------------------
\* keyboard_init() has opened the mailbox for the handler and getchar().
KInit ==
  /\ Init
  /\ used = 1 /\ count = 0 /\ head = 0 /\ tail = 0
  /\ buffer = [i \in Cells |-> 0]
  /\ op = [t \in Threads |-> "none"]
  /\ stage = [t \in Threads |-> "body"]
  /\ handle = [t \in Threads |-> TRUE]
  /\ msg = [t \in Threads |-> <<>>]
  /\ space = [t \in Threads |-> -1]
  /\ held = {} /\ codes = <<>> /\ shift_status = {}
  /\ reading = [t \in Receivers |-> FALSE]
  /\ irq = "none" /\ character = 0
  /\ off = Nobody

\* A key is pressed, or repeats its code while it is held, or is released.
Key(key, release) ==
  /\ Len(codes) < MaxScanCodes
  /\ Handler(key) \in ShiftBits /\ release => key \in held
  /\ held' = IF Handler(key) \notin ShiftBits THEN held
             ELSE IF release THEN held \ {key} ELSE held \cup {key}
  /\ codes' = Append(codes, [key |-> key, release |-> release])
  /\ UNCHANGED <<mboxvars, shift_status, reading, irq, character, off>>

\* t may run.
Runs(t) == off \in {Nobody, t}

\* t goes on with interrupts off, unless it has blocked.
KeepsInterruptsOff(t) ==
  off' = IF at'[t] \in {"blocked", "waiting"} THEN Nobody ELSE t

-----------------------------------------------------------------------------
\* Mutant: the key that is released leaves its bit.
SetShiftBitSticky(bit, release) ==
  shift_status' = IF release THEN shift_status ELSE shift_status \cup {bit}

\* right_shift_handler(), left_shift_handler(), control_handler(), alt_handler()
SetShiftBit(bit, release) ==
  shift_status' = IF release THEN shift_status \ {bit} ELSE shift_status \cup {bit}

\* caps_lock_handler()
ToggleCaps(release) ==
  shift_status' = IF release THEN shift_status
                  ELSE SymDiff(shift_status, {"CAPS_SHIFT"})

\* keyboard_interrupt() for a key whose handler only keeps the shift state
ShiftInterrupt ==
  LET c == Head(codes) IN
  /\ off = Nobody /\ codes # <<>>
  /\ \/ Handler(c.key) \in ShiftBits /\ SetShiftBit(Handler(c.key), c.release)
     \/ Handler(c.key) = "CAPS_SHIFT" /\ ToggleCaps(c.release)
     \/ /\ Handler(c.key) \in {"ignored", "normal"}
        /\ Handler(c.key) = "normal" => c.release
        /\ UNCHANGED shift_status
  /\ codes' = Tail(codes)
  /\ UNCHANGED <<mboxvars, held, reading, irq, character, off>>

\* keyboard_interrupt() for a key with a character: putchar() calls mbox_stat().
CharInterrupt ==
  LET c == Head(codes) IN
  /\ off = Nobody /\ codes # <<>> /\ irq = "none"
  /\ Handler(c.key) = "normal" /\ ~c.release
  /\ codes' = Tail(codes)
  /\ character' = Ascii(shift_status)
  /\ CallStat(Irq)
  /\ irq' = "stat"
  /\ KeepsInterruptsOff(Irq)
  /\ UNCHANGED <<held, shift_status, reading>>

\* Mutant: putchar() does not look at the space.
PutCharBlindly ==
  /\ Runs(Irq) /\ irq = "stat" /\ op[Irq] = "none"
  /\ CallSend(Irq, <<character>>)
  /\ irq' = "send"
  /\ KeepsInterruptsOff(Irq)
  /\ UNCHANGED <<held, codes, shift_status, reading, character>>

\* mbox_stat() has returned and there is space: mbox_send() is called.
PutChar ==
  /\ Runs(Irq) /\ irq = "stat" /\ op[Irq] = "none"
  /\ space[Irq] >= MSG_CHAR_SIZE
  /\ CallSend(Irq, <<character>>)
  /\ irq' = "send"
  /\ KeepsInterruptsOff(Irq)
  /\ UNCHANGED <<held, codes, shift_status, reading, character>>

\* The handler returns, without a space after mbox_stat() or after mbox_send().
InterruptReturns ==
  /\ Runs(Irq) /\ op[Irq] = "none"
  /\ irq \in {"stat", "send"}
  /\ irq = "stat" => space[Irq] < MSG_CHAR_SIZE
  /\ irq' = "none" /\ character' = 0 /\ off' = Nobody
  /\ msg' = [msg EXCEPT ![Irq] = <<>>] /\ space' = [space EXCEPT ![Irq] = -1]
  /\ UNCHANGED <<monvars, fields, op, stage, handle, held, codes, shift_status, reading>>

-----------------------------------------------------------------------------
\* Mutant: getchar() without its critical section
StepInterruptible(t) ==
  /\ Runs(t)
  /\ \/ Stat(t) \/ SendWaits(t) \/ Send(t) \/ WakeOthers(t, "send", moreData)
     \/ RecvWaits(t) \/ Recv(t) \/ WakeOthers(t, "recv", moreSpace)
     \/ WaitGoesOn(t) \/ Return(t)
  /\ off' = IF t = Irq THEN Irq ELSE Nobody
  /\ UNCHANGED <<held, codes, shift_status, reading, irq, character>>

\* A step inside mbox_stat(), mbox_send() or mbox_recv()
Step(t) ==
  /\ Runs(t)
  /\ \/ Stat(t) \/ SendWaits(t) \/ Send(t) \/ WakeOthers(t, "send", moreData)
     \/ RecvWaits(t) \/ Recv(t) \/ WakeOthers(t, "recv", moreSpace)
     \/ WaitGoesOn(t) \/ Return(t)
  /\ KeepsInterruptsOff(t)
  /\ UNCHANGED <<held, codes, shift_status, reading, irq, character>>

\* getchar(): enter_critical() and the call of mbox_recv()
GetChar(t) ==
  /\ off = Nobody /\ t \in Receivers /\ ~reading[t]
  /\ reading' = [reading EXCEPT ![t] = TRUE]
  /\ CallRecv(t)
  /\ KeepsInterruptsOff(t)
  /\ UNCHANGED <<held, codes, shift_status, irq, character>>

\* leave_critical() after mbox_recv(); the message is a local of getchar().
GetCharReturns(t) ==
  /\ Runs(t) /\ t \in Receivers /\ reading[t] /\ op[t] = "none"
  /\ reading' = [reading EXCEPT ![t] = FALSE]
  /\ msg' = [msg EXCEPT ![t] = <<>>]
  /\ off' = Nobody
  /\ UNCHANGED <<monvars, fields, op, stage, handle, space, held, codes,
                 shift_status, irq, character>>

-----------------------------------------------------------------------------
Proceeds(t) == Step(t) \/ GetCharReturns(t)

HandlerProceeds == Step(Irq) \/ PutChar \/ InterruptReturns

KNext ==
  \/ \E key \in Keys, release \in BOOLEAN : Key(key, release)
  \/ ShiftInterrupt \/ CharInterrupt \/ HandlerProceeds
  \/ \E t \in Receivers : GetChar(t) \/ Proceeds(t)

KSpec == KInit /\ [][KNext]_kvars

(***************************************************************************)
(* The handler runs on, and interrupts are served when they are on.  A     *)
(* process that is ready is dispatched again and again (NoStarvation of    *)
(* module Scheduler), if only between interrupts: strong fairness.         *)
(***************************************************************************)
KFairSpec ==
  /\ KSpec
  /\ WF_kvars(HandlerProceeds)
  /\ \A t \in Receivers : SF_kvars(Proceeds(t))

-----------------------------------------------------------------------------
\* The interrupt handler, which runs on the stack of whatever process it has
\* interrupted, never has to wait: neither for the lock of the mailbox, which
\* getchar() holds only with interrupts off, nor for space, which mbox_stat()
\* has promised it.
InterruptNeverBlocks == at[Irq] \in {"out", "in"}

\* No shift key is stuck and none is missed: when all scan codes have been
\* read, a bit of shift_status is set only while a key of its handler is held
\* down, and is set when all of them are.
ShiftFollowsKeys ==
  codes = <<>> =>
    \A bit \in ShiftBits :
      LET keys == {key \in Keys : Handler(key) = bit} IN
      /\ bit \in shift_status => keys \cap held # {}
      /\ keys # {} /\ keys \subseteq held => bit \in shift_status

\* A process waits in getchar() only for a key: it is not left asleep with a
\* character in the mailbox, as a receiver without getchar()'s critical section
\* can be.
CharacterServed ==
  \A t \in Receivers : reading[t] /\ count > 0 ~> ~reading[t] \/ count = 0
=============================================================================
