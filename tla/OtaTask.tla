-------------------------------- MODULE OtaTask --------------------------------
(***************************************************************************)
(* ota_task (ota.rs:20-118): receives a firmware image over TCP, writes it *)
(* chunk by chunk to the app slot that is not running, selects that slot   *)
(* in otadata and restarts.  The host is ota_flash.rs: it sends the length *)
(* and the image and exits, without waiting for an answer.  Power may fail *)
(* at any point, in the middle of a flash write included; a connection may *)
(* end at any point, and what had arrived by then can still be read.       *)
(*                                                                         *)
(* An image is identified by its length in words; a word of a slot holds   *)
(* the image it was written from, or 0 when erased or torn.  On the wire   *)
(* the length counts as one word.                                          *)
(*                                                                         *)
(* "accept" is the one control point at which ota_task does not suspend:   *)
(* the executor polls no other task, net_task included, until it leaves.   *)
(*                                                                         *)
(* External: the flash library (otadata has two entries, the newer one is  *)
(* the selection, and an entry is rewritten by erasing it first), the      *)
(* bootloader, and the socket, whose close is finished by net_task.        *)
(***************************************************************************)
EXTENDS LedChannel, Integers

CONSTANTS SlotSize,          \* words of an app slot
          ChunkSize,         \* words read and written at a time, and of rx_buffer: 4096 bytes
          Image,             \* the images the host sends, by length
          Endings,           \* how a connection ends early: "reset", "timeout", "fin"
          FlashFaults,       \* where a flash operation may return an error
          RollbackBootloader \* the bootloader may give up an image that was not marked valid

ASSUME SizeAssumption ==
  /\ SlotSize \in Nat \ {0} /\ ChunkSize \in Nat \ {0}
  /\ Image \subseteq Nat \ {0}
ASSUME FaultAssumption ==
  /\ Endings \subseteq {"reset", "timeout", "fin"}
  /\ FlashFaults \subseteq {"marking", "writing", "activate", "setState"}
  /\ RollbackBootloader \in BOOLEAN

VARIABLES pc,                \* where ota_task stands; "off" until the first long press
          socket,            \* state of the TCP socket
          image,             \* the image under transfer (total_len)
          unsent,            \* words ota_flash has not handed over yet
          buffered,          \* words in rx_buffer
          received,          \* words received and written
          slots,             \* contents of ota_0 and ota_1
          selected,          \* what the newer otadata entry selects
          fallback,          \* what the older otadata entry selects
          imgState,          \* state in the newer entry
          booted             \* the running slot

flashVars == <<slots, selected, fallback, imgState>>
hostVars == <<image, unsent, buffered>>
vars == <<queue, pc, socket, hostVars, received, flashVars, booted>>

OtaSlot == {"ota_0", "ota_1"}
Slot == OtaSlot \cup {"factory"}
Word == 0 .. SlotSize - 1

TypeOK ==
  /\ ChannelTypeOK
  /\ pc \in {"off", "marking", "accept", "listening", "sendInProgress", "readLen",
             "writing", "activate", "setState", "sendSuccess", "rebootDelay", "sendResume"}
  /\ socket \in {"closed", "listen", "established", "closeWait", "closing"}
  /\ image \in Image \cup {0}
  /\ unsent \in 0 .. image + 1
  /\ buffered \in 0..ChunkSize
  /\ received \in 0..image
  /\ slots \in [OtaSlot -> [Word -> Image \cup {0}]]
  /\ {selected, fallback, booted} \subseteq Slot
  /\ imgState \in {"undefined", "new", "pending", "valid"}

\* A freshly flashed device: otadata and both slots are blank.
Init ==
  /\ queue = << >>
  /\ pc = "off"
  /\ socket = "closed"
  /\ image = 0 /\ unsent = 0 /\ buffered = 0 /\ received = 0
  /\ slots = [s \in OtaSlot |-> [w \in Word |-> 0]]
  /\ selected = "factory" /\ fallback = "factory" /\ booted = "factory"
  /\ imgState = "undefined"
-------------------------------------------------------------------------------
Goto(from, to) == pc = from /\ pc' = to

OtherSlot(slot) == IF slot = "ota_0" THEN "ota_1" ELSE "ota_0"

\* OtaUpdater::next_partition: the slot after the selected one, never the running one.
NextSlot ==
  LET after == OtherSlot(selected)
  IN  IF after = booted THEN OtherSlot(after) ELSE after

Otadata(newer, older, state) == selected' = newer /\ fallback' = older /\ imgState' = state

\* Mutant: the new slot is written but not selected.
MutSelectNothing(slot) == UNCHANGED <<selected, fallback, imgState>>

\* Selecting a slot rewrites the older entry, unless the slot is selected already.
Select(slot) ==
  IF slot = selected THEN UNCHANGED <<selected, fallback, imgState>>
                     ELSE Otadata(slot, selected, "undefined")

\* A new state rewrites the newer entry; until it is written the older entry selects.
SetState(state) == Otadata(selected, fallback, state)

\* The image was installed and not yet marked valid.
Unmarked == imgState \in {"new", "pending"}

\* The first long press starts ota_task.
Start ==
  /\ Goto("off", "marking")
  /\ UNCHANGED <<queue, socket, hostVars, received, flashVars, booted>>

\* Mutant: PendingVerify is not looked for.
MutMarkNewOnly ==
  /\ Goto("marking", "accept")
  /\ IF imgState = "new" THEN SetState("valid") ELSE UNCHANGED <<selected, fallback, imgState>>
  /\ UNCHANGED <<queue, socket, hostVars, received, slots, booted>>

\* mark_current_slot_valid; a failure is ignored.
MarkCurrentSlotValid ==
  /\ Goto("marking", "accept")
  /\ \/ Unmarked /\ SetState("valid")
     \/ (~Unmarked \/ "marking" \in FlashFaults) /\ UNCHANGED <<selected, fallback, imgState>>
  /\ UNCHANGED <<queue, socket, hostVars, received, slots, booted>>

\* accept() on a closed socket listens, with an empty rx_buffer, and suspends.
Listen ==
  /\ socket = "closed"
  /\ Goto("accept", "listening")
  /\ socket' = "listen"
  /\ image' = 0 /\ unsent' = 0 /\ buffered' = 0 /\ received' = 0
  /\ UNCHANGED <<queue, flashVars, booted>>

\* accept() on a socket that is still open fails at once, and `continue` calls it again.
AcceptFails ==
  /\ socket # "closed"
  /\ Goto("accept", "accept")
  /\ UNCHANGED <<queue, socket, hostVars, received, flashVars, booted>>

Accepted ==
  /\ socket # "listen"
  /\ Goto("listening", "sendInProgress")
  /\ UNCHANGED <<queue, socket, hostVars, received, flashVars, booted>>

SendInProgress ==
  /\ Send("ShowOtaInProgress")
  /\ Goto("sendInProgress", "readLen")
  /\ UNCHANGED <<socket, hostVars, received, flashVars, booted>>

\* Mutant: the slot is activated before the transfer.
MutActivateFirst ==
  /\ buffered > 0
  /\ Goto("readLen", "writing")
  /\ buffered' = buffered - 1
  /\ received' = 0
  /\ Select(NextSlot)
  /\ UNCHANGED <<queue, socket, image, unsent, slots, booted>>

ReadLength ==
  /\ buffered > 0
  /\ Goto("readLen", "writing")
  /\ buffered' = buffered - 1
  /\ received' = 0
  /\ UNCHANGED <<queue, socket, image, unsent, flashVars, booted>>

\* The length of the next chunk: the last one may be shorter.
Want == IF image - received < ChunkSize THEN image - received ELSE ChunkSize

Chunk == received .. received + Want - 1

\* Mutant: a last chunk that is shorter is left out.
MutWholeChunksOnly(done) == done + ChunkSize > image

\* Mutant: `received <= total_len`.
MutOneMoreChunk(done) == done > image

Complete(done) == done >= image

\* Mutant: read() in the place of read_exact().
MutSomeArrived == buffered > 0

\* read_exact has what it waits for, wherever the connection has got to.
ChunkArrived == buffered >= Want

Fits == Chunk \subseteq Word

\* One turn of the loop; with the last word written, control goes on to the activation.
WriteChunk ==
  /\ ChunkArrived /\ Fits
  /\ slots' = [slots EXCEPT ![NextSlot] = [w \in Word |-> IF w \in Chunk THEN image ELSE @[w]]]
  /\ received' = received + Want
  /\ buffered' = buffered - Want
  /\ Goto("writing", IF Complete(received') THEN "activate" ELSE "writing")
  /\ UNCHANGED <<queue, socket, image, unsent, selected, fallback, imgState, booted>>

\* The connection ended before the data did.
ReceiveFails ==
  /\ socket # "established"
  /\ \/ buffered = 0 /\ Goto("readLen", "sendResume")
     \/ ~ChunkArrived /\ Goto("writing", "sendResume")
  /\ UNCHANGED <<queue, socket, hostVars, received, flashVars, booted>>

\* The chunk lies beyond the end of the slot.
ImageTooLarge ==
  /\ ChunkArrived /\ ~Fits
  /\ Goto("writing", "sendResume")
  /\ UNCHANGED <<queue, socket, hostVars, received, flashVars, booted>>

\* A flash operation of the transfer returns an error; the first one of "writing" reads the
\* partition table.
FlashFails ==
  /\ \E from \in FlashFaults \ {"marking"} :
       /\ from = "writing" => received = 0 \/ ChunkArrived
       /\ Goto(from, "sendResume")
  /\ UNCHANGED <<queue, socket, hostVars, received, flashVars, booted>>

ActivateNextPartition ==
  /\ Goto("activate", "setState")
  /\ Select(NextSlot)
  /\ UNCHANGED <<queue, socket, hostVars, received, slots, booted>>

SetStateNew ==
  /\ Goto("setState", "sendSuccess")
  /\ SetState("new")
  /\ UNCHANGED <<queue, socket, hostVars, received, slots, booted>>

\* ShowOtaSuccess, then flush and 200 ms.
SendSuccess ==
  /\ Send("ShowOtaSuccess")
  /\ Goto("sendSuccess", "rebootDelay")
  /\ UNCHANGED <<socket, hostVars, received, flashVars, booted>>

\* The bootloader starts what it finds otadata to select; RAM is lost.  One that rolls back
\* notes that a new image was started, and gives it up if it finds the note at the next start.
Restart(newer, older, state) ==
  /\ \/ Otadata(newer, older, state) /\ booted' = newer
     \/ RollbackBootloader /\ state = "new" /\ Otadata(newer, older, "pending") /\ booted' = newer
     \/ RollbackBootloader /\ state = "pending" /\ Otadata(older, "factory", "undefined") /\ booted' = older
  /\ pc' = "off"
  /\ queue' = << >>
  /\ socket' = "closed"
  /\ image' = 0 /\ unsent' = 0 /\ buffered' = 0 /\ received' = 0

SoftwareReset ==
  /\ pc = "rebootDelay"
  /\ Restart(selected, fallback, imgState)
  /\ UNCHANGED slots

\* socket.close(): an open connection is closed with a handshake that net_task carries out.
AfterClose == IF socket = "closed" THEN "closed" ELSE "closing"

\* Mutant: a failed transfer does not resume the animation.
MutKeepBlue ==
  /\ Goto("sendResume", "accept")
  /\ socket' = AfterClose
  /\ UNCHANGED <<queue, hostVars, received, flashVars, booted>>

SendResume ==
  /\ Send("ResumeAnimation")
  /\ Goto("sendResume", "accept")
  /\ socket' = AfterClose
  /\ UNCHANGED <<hostVars, received, flashVars, booted>>

OtaStep ==
  \/ Start \/ MarkCurrentSlotValid \/ Listen \/ AcceptFails \/ Accepted
  \/ SendInProgress \/ ReadLength \/ WriteChunk \/ ReceiveFails
  \/ ImageTooLarge \/ ActivateNextPartition \/ SetStateNew \/ SendSuccess \/ SoftwareReset \/ SendResume
-------------------------------------------------------------------------------
\* Environment.  The executor reaches another task only when ota_task is suspended: not
\* while accept() fails, and not during the flash operations.
Suspended == pc \notin {"marking", "accept", "activate", "setState"}

\* ota_flash: TcpStream::connect succeeds, and there is the length and the image to send.
HostConnects ==
  /\ socket = "listen"
  /\ Suspended
  /\ socket' = "established"
  /\ image' \in Image /\ unsent' = image' + 1
  /\ UNCHANGED <<queue, pc, buffered, received, flashVars, booted>>

\* write_all hands over a word, and the network brings it; rx_buffer bounds what is under way.
HostWrites ==
  /\ socket = "established" /\ unsent > 0 /\ buffered < ChunkSize
  /\ Suspended
  /\ unsent' = unsent - 1 /\ buffered' = buffered + 1
  /\ UNCHANGED <<queue, pc, socket, image, received, flashVars, booted>>

\* ota_flash exits when everything is written, or is stopped before.
HostExits ==
  /\ socket = "established" /\ (unsent = 0 \/ "fin" \in Endings)
  /\ Suspended
  /\ socket' = "closeWait"
  /\ UNCHANGED <<queue, pc, hostVars, received, flashVars, booted>>

\* net_task closes the socket: the connection is reset, the 30 s timeout expires, or the
\* handshake of a close gets its answer.
ConnectionEnds ==
  /\ \/ socket \in {"established", "closeWait"} /\ Endings \cap {"reset", "timeout"} # {}
     \/ socket = "closing"
  /\ Suspended
  /\ socket' = "closed"
  /\ UNCHANGED <<queue, pc, hostVars, received, flashVars, booted>>

LedTaskReceives ==
  /\ Suspended
  /\ \E cmd \in Command : Receive(cmd)
  /\ UNCHANGED <<pc, socket, hostVars, received, flashVars, booted>>

\* Power fails, perhaps in the middle of a flash write.
PowerFails ==
  \/ Restart(selected, fallback, imgState) /\ UNCHANGED slots
  \/ /\ pc = "writing" /\ ChunkArrived /\ Fits
     /\ slots' = [slots EXCEPT ![NextSlot] = [w \in Word |-> IF w \in Chunk THEN 0 ELSE @[w]]]
     /\ Restart(selected, fallback, imgState)
  \/ /\ pc = "activate" /\ NextSlot # selected
     /\ Restart(selected, "factory", imgState) /\ UNCHANGED slots
  \/ /\ (pc = "marking" /\ Unmarked) \/ pc = "setState"
     /\ Restart(fallback, "factory", "undefined") /\ UNCHANGED slots

Next ==
  \/ OtaStep \/ FlashFails
  \/ HostConnects \/ HostWrites \/ HostExits \/ ConnectionEnds
  \/ LedTaskReceives \/ PowerFails

\* A task that can move does; a connection brings data or ends, after the 30 s timeout at the
\* latest; no host need connect, and no flash operation fail.
Fairness ==
  /\ WF_vars(OtaStep)
  /\ WF_vars(HostWrites \/ ConnectionEnds)
  /\ WF_vars(LedTaskReceives)

Spec == Init /\ [][Next]_vars /\ Fairness
-------------------------------------------------------------------------------
Holds(slot, img) == \A w \in 0 .. img - 1 : w \in Word /\ slots[slot][w] = img

IsComplete(slot) == slot = "factory" \/ \E img \in Image : Holds(slot, img)

\* Whenever power fails or the device restarts, otadata selects an image that was received
\* in full: no interrupted transfer, torn chunk or torn otadata entry ever makes the
\* bootloader start a partial image (ota_update.md:27-30).
SelectedIsComplete == IsComplete(selected)

\* ota_update.md:28-30: after a transfer that failed "otadata is left untouched": the next
\* boot starts the firmware that runs now, until a transfer has succeeded.
FailureLeavesSelection ==
  pc \in {"off", "accept", "listening", "sendInProgress", "readLen", "writing", "sendResume"}
    => selected = booted

\* What the code keeps of it, whichever operation fails: unless a transfer is at its end,
\* otadata selects the running firmware, or a transfer has failed at the one operation that
\* comes after the switch, the write of the image state (ota.rs:112-115), and that state was
\* left undefined.  A retry keeps to this as well.
OnlyLostStateSwitches ==
  pc \notin {"setState", "sendSuccess", "rebootDelay"} /\ selected # booted
    => "setState" \in FlashFaults /\ imgState = "undefined"

\* The image in a slot, if there is a complete one.
ImageIn(slot) == CASE slot = "factory" -> 0
                   [] slot # "factory" /\ IsComplete(slot) -> slots[slot][0]
                   [] OTHER -> -1

Store == INSTANCE ABStore WITH
  Factory  <- 0,
  running  <- ImageIn(booted),
  selected <- ImageIn(selected),
  spare    <- ImageIn(IF Unmarked \/ pc = "setState" THEN fallback ELSE selected)

\* The many writes of an update, power failures in the middle of any of them, and either
\* bootloader come to this: the selected image is replaced in one step, by a complete one,
\* and until the new image has been marked valid a restart may bring back the old one, but
\* none before it and never a partial one (ota_update.md:27-30).
UpdateIsAtomic == Store!Spec

\* A restart at the end of a successful transfer starts the image just received.
SuccessBootsNewImage ==
  [][pc = "rebootDelay" /\ pc' = "off" => booted' # booted /\ Holds(booted', image)]_vars

\* ota_update.md:30: after an interrupted transfer "a retry is always safe", so ota_task
\* listens again.
RetryIsPossible == pc = "sendResume" ~> pc \in {"listening", "off"}

\* A transfer that starts ends: with a restart, or back at accept(), whether or not that
\* can succeed (RetryIsPossible says when it cannot).
TransferEnds == pc = "sendInProgress" ~> pc \in {"accept", "off"}
===============================================================================
