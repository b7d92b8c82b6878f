---------------------------- MODULE OtaTask_proofs ----------------------------
(***************************************************************************)
(* As long as setting an image state does not fail, otadata always selects *)
(* a complete image: for every slot and chunk size, every set of images    *)
(* and every way a connection, the power or another flash operation may    *)
(* fail.  What a successful transfer boots, and when otadata selects       *)
(* another image than the running one, is proved for all failures.         *)
(***************************************************************************)
EXTENDS OtaTask, TLAPS

\* The slot that is written is an OTA slot and never the running one.
LEMMA NextSlotIsSpare ==
  ASSUME selected \in Slot, booted \in Slot
  PROVE  NextSlot \in OtaSlot /\ NextSlot # booted
BY DEF NextSlot, OtherSlot, OtaSlot, Slot

\* A chunk lies between what was received and the end of the image.
LEMMA WantIsBounded ==
  ASSUME image \in Nat, received \in 0..image
  PROVE  Want \in Nat /\ received + Want \in received..image
BY SizeAssumption DEF Want

LEMMA InitTypeOK == Init => TypeOK
<1> SUFFICES ASSUME Init PROVE TypeOK
  OBVIOUS
<1>1. ChannelTypeOK
  BY CapacityAssumption DEF Init, ChannelTypeOK
<1> QED
  BY <1>1, SizeAssumption DEF Init, TypeOK, Slot, OtaSlot, Word

\* While the socket waits for a host, nothing has been received.
Fresh == socket = "listen" => pc = "listening" /\ received = 0

LEMMA StepFresh == Fresh /\ [Next]_vars => Fresh'
BY FaultAssumption DEF Fresh, Goto, Next, OtaStep, Start, MarkCurrentSlotValid, Listen,
   AcceptFails, Accepted, SendInProgress, ReadLength, WriteChunk, ReceiveFails, ImageTooLarge,
   FlashFails, ActivateNextPartition, SetStateNew, SendSuccess, SoftwareReset, Restart,
   SendResume, AfterClose, HostConnects, HostWrites, HostExits, ConnectionEnds,
   LedTaskReceives, PowerFails, hostVars, vars

\* Every step leaves a queue of commands that fits the channel.
LEMMA QueueTyped == TypeOK /\ [Next]_vars => ChannelTypeOK'
<1> SUFFICES ASSUME TypeOK, [Next]_vars PROVE ChannelTypeOK'
  OBVIOUS
<1>1. CASE SendInProgress \/ SendSuccess \/ SendResume
  <2>1. PICK c \in Command : Send(c)
    BY <1>1 DEF SendInProgress, SendSuccess, SendResume, Command
  <2> QED
    BY <2>1, CapacityAssumption DEF Send, ChannelTypeOK, TypeOK
<1>2. CASE LedTaskReceives
  BY <1>2, CapacityAssumption DEF Receive, ChannelTypeOK, LedTaskReceives, TypeOK
<1>3. CASE SoftwareReset \/ PowerFails
  <2>1. queue' = << >>
    BY <1>3 DEF SoftwareReset, PowerFails, Restart
  <2> QED
    BY <2>1, CapacityAssumption DEF ChannelTypeOK
<1>4. CASE UNCHANGED queue
  BY <1>4 DEF TypeOK, ChannelTypeOK
<1> QED
  BY <1>1, <1>2, <1>3, <1>4 DEF Next, OtaStep, Start, MarkCurrentSlotValid, Listen,
     AcceptFails, Accepted, ReadLength, WriteChunk, ReceiveFails, ImageTooLarge, FlashFails,
     ActivateNextPartition, SetStateNew, HostConnects, HostWrites, HostExits,
     ConnectionEnds, vars

LEMMA StepTypeOK == TypeOK /\ Fresh /\ [Next]_vars => TypeOK'
<1> SUFFICES ASSUME TypeOK, Fresh, [Next]_vars PROVE TypeOK'
  OBVIOUS
<1> USE DEF TypeOK, Goto, Slot, flashVars, hostVars
<1>0. ChannelTypeOK' /\ image \in Nat
  BY QueueTyped, SizeAssumption
<1>s. NextSlot \in OtaSlot
  BY NextSlotIsSpare
<1>1. CASE Start \/ Listen \/ AcceptFails \/ Accepted \/ SendInProgress \/ SendSuccess
  BY <1>0, <1>1, SizeAssumption DEF Start, Listen, AcceptFails, Accepted, SendInProgress,
     SendSuccess
<1>2. CASE MarkCurrentSlotValid
  BY <1>0, <1>2 DEF MarkCurrentSlotValid, SetState, Otadata
<1>3. CASE ReadLength
  BY <1>0, <1>3, SizeAssumption DEF ReadLength
<1>4. CASE WriteChunk
  <2>1. received' \in 0..image'
    BY <1>0, <1>4, WantIsBounded DEF WriteChunk
  <2>2. slots' \in [OtaSlot -> [Word -> Image \cup {0}]]
    BY <1>0, <1>4, <1>s, WantIsBounded, SizeAssumption DEF WriteChunk, Chunk, Fits
  <2>3. buffered' \in 0..ChunkSize
    BY <1>0, <1>4, WantIsBounded, SizeAssumption DEF WriteChunk, ChunkArrived
  <2> QED
    BY <1>0, <1>4, <2>1, <2>2, <2>3 DEF WriteChunk
<1>5. CASE ReceiveFails \/ ImageTooLarge \/ FlashFails \/ SendResume
  BY <1>0, <1>5 DEF ReceiveFails, ImageTooLarge, FlashFails, SendResume, AfterClose
<1>6. CASE ActivateNextPartition
  BY <1>0, <1>6, <1>s DEF ActivateNextPartition, Select, Otadata
<1>7. CASE SetStateNew
  BY <1>0, <1>7 DEF SetStateNew, SetState, Otadata
<1>8. CASE SoftwareReset
  BY <1>0, <1>8, SizeAssumption DEF SoftwareReset, Restart, Otadata
<1>9. CASE HostConnects \/ HostWrites
  <2>1. image' \in Image \cup {0}
    BY <1>9 DEF HostConnects, HostWrites
  <2>n. image' \in Nat
    BY <2>1, SizeAssumption
  <2>2. received' \in 0..image'
    BY <1>9, <2>n DEF HostConnects, HostWrites, Fresh
  <2>3. unsent' \in 0 .. image' + 1 /\ buffered' \in 0..ChunkSize
    BY <1>9, <1>0, <2>n, SizeAssumption DEF HostConnects, HostWrites
  <2> QED
    BY <1>0, <1>9, <2>1, <2>2, <2>3 DEF HostConnects, HostWrites
<1>10. CASE HostExits \/ ConnectionEnds \/ LedTaskReceives
  BY <1>0, <1>10 DEF HostExits, ConnectionEnds, LedTaskReceives
<1>11. CASE PowerFails
  <2>1. slots' \in [OtaSlot -> [Word -> Image \cup {0}]]
    BY <1>11, <1>s DEF PowerFails
  <2>2. {selected', fallback', booted'} \subseteq Slot
          /\ imgState' \in {"undefined", "new", "pending", "valid"}
    BY <1>11 DEF PowerFails, Restart, Otadata
  <2> QED
    BY <1>0, <1>11, <2>1, <2>2, SizeAssumption DEF PowerFails, Restart
<1>12. CASE UNCHANGED vars
  BY <1>0, <1>12 DEF vars
<1> QED
  BY <1>1, <1>2, <1>3, <1>4, <1>5, <1>6, <1>7, <1>8, <1>9, <1>10, <1>11, <1>12
  DEF Next, OtaStep

\* The variables keep their types: no more is received than was announced, and nothing is
\* written outside the slot.
THEOREM TypeCorrect == Spec => []TypeOK
<1>1. Init => Fresh
  BY DEF Init, Fresh
<1> QED
  BY <1>1, InitTypeOK, StepTypeOK, StepFresh, PTL DEF Spec

\* Only a transfer, or a power failure in the middle of one, writes to the slots.
LEMMA OnlyTransferWrites == [Next]_vars /\ ~WriteChunk /\ ~PowerFails => UNCHANGED slots
BY DEF Next, OtaStep, Start, MarkCurrentSlotValid, Listen, AcceptFails, Accepted,
   SendInProgress, ReadLength, ReceiveFails, ImageTooLarge, FlashFails,
   ActivateNextPartition, SetStateNew, SendSuccess, SoftwareReset, SendResume, HostConnects,
   HostWrites, HostExits, ConnectionEnds, LedTaskReceives, flashVars, vars

-------------------------------------------------------------------------------
\* What holds of the selection whichever flash operations fail: ota_task starts with the
\* running slot selected, and an activation that is not followed by a state yet has left
\* the state undefined.
Selection ==
  /\ OnlyLostStateSwitches
  /\ pc \in {"off", "marking"} => selected = booted
  /\ pc = "setState" => imgState = "undefined"

LEMMA StepSelection == TypeOK /\ Selection /\ [Next]_vars => Selection'
<1> SUFFICES ASSUME TypeOK, Selection, [Next]_vars PROVE Selection'
  OBVIOUS
<1> USE DEF Selection, OnlyLostStateSwitches, Goto, flashVars
<1>1. CASE MarkCurrentSlotValid
  BY <1>1 DEF MarkCurrentSlotValid, SetState, Otadata
<1>2. CASE ActivateNextPartition
  <2>1. NextSlot # booted
    BY NextSlotIsSpare DEF TypeOK
  <2> QED
    BY <1>2, <2>1 DEF ActivateNextPartition, Select, Otadata
<1>3. CASE SetStateNew
  BY <1>3 DEF SetStateNew
<1>4. CASE FlashFails
  BY <1>4, FaultAssumption DEF FlashFails
<1>5. CASE SoftwareReset \/ PowerFails
  BY <1>5 DEF SoftwareReset, PowerFails, Restart, Otadata
<1>6. CASE WriteChunk
  BY <1>6 DEF WriteChunk
<1>7. CASE /\ UNCHANGED <<selected, imgState, booted>>
           /\ \/ pc' = pc
              \/ pc = "off" /\ pc' = "marking"
              \/ /\ pc \notin {"off", "marking", "setState", "sendSuccess", "rebootDelay"}
                 /\ pc' \notin {"off", "marking", "setState"}
              \/ pc = "sendSuccess" /\ pc' = "rebootDelay"
  BY <1>7
<1> QED
  BY <1>1, <1>2, <1>3, <1>4, <1>5, <1>6, <1>7 DEF Next, OtaStep, Start, Listen, AcceptFails,
     Accepted, SendInProgress, ReadLength, ReceiveFails, ImageTooLarge, SendSuccess,
     SendResume, HostConnects, HostWrites, HostExits, ConnectionEnds, LedTaskReceives, vars

\* For all flash faults, sizes and bootloaders: before the end of a transfer, and after one
\* that failed, the running firmware is selected, unless it was the write of the image state
\* that failed (ota.rs:114-115), and then the entry says that no state was set.
THEOREM SwitchIsAccountedFor == Spec => []OnlyLostStateSwitches
<1>1. Init => Selection
  BY DEF Init, Selection, OnlyLostStateSwitches
<1>2. Selection => OnlyLostStateSwitches
  BY DEF Selection
<1>3. TypeOK /\ Selection /\ [Next]_vars => Selection'
  BY StepSelection
<1> QED
  BY <1>1, <1>2, <1>3, TypeCorrect, PTL DEF Spec
-------------------------------------------------------------------------------
\* Why otadata always selects a complete image.  Until the image is complete otadata
\* selects the running slot (SelectsRunning), and only the other one is written; the words
\* received so far are in that slot (Progress); and where a torn entry or a rollback makes
\* the bootloader fall back to the older entry, that entry selects a complete image too
\* (SafeFallback), because an image is marked valid before the next transfer (Marked).
SelectsRunning == pc \notin {"setState", "sendSuccess", "rebootDelay"} => selected = booted

Uncommitted == Unmarked \/ pc = "setState"

SafeFallback == Uncommitted => IsComplete(fallback)

Marked ==
  pc \in {"accept", "listening", "sendInProgress", "readLen", "writing", "activate",
          "sendResume"} => ~Unmarked

Announced ==
  /\ pc \in {"sendInProgress", "readLen", "writing", "activate"} => image \in Image
  /\ pc = "listening" /\ socket # "listen" => image \in Image

Progress ==
  /\ pc \in {"writing", "activate"} =>
       \A w \in 0 .. received - 1 : w \in Word /\ slots[NextSlot][w] = image
  /\ pc = "activate" => received = image

Safe == SelectsRunning /\ SelectedIsComplete /\ SafeFallback /\ Marked

LEMMA StepAnnounced == TypeOK /\ Fresh /\ Announced /\ [Next]_vars => Announced'
<1> SUFFICES ASSUME TypeOK, Fresh, Announced, [Next]_vars PROVE Announced'
  OBVIOUS
<1> USE DEF Fresh, Announced, Goto, hostVars
<1>1. CASE OtaStep
  BY <1>1, FaultAssumption DEF OtaStep, Start, MarkCurrentSlotValid, Listen, AcceptFails,
     Accepted, SendInProgress, ReadLength, WriteChunk, ReceiveFails, ImageTooLarge,
     ActivateNextPartition, SetStateNew, SendSuccess, SoftwareReset, Restart, SendResume,
     AfterClose
<1>2. CASE FlashFails \/ LedTaskReceives
  BY <1>2, FaultAssumption DEF FlashFails, LedTaskReceives
<1>3. CASE HostConnects \/ HostWrites \/ HostExits \/ ConnectionEnds
  BY <1>3 DEF HostConnects, HostWrites, HostExits, ConnectionEnds
<1>4. CASE PowerFails
  BY <1>4 DEF PowerFails, Restart
<1>5. CASE UNCHANGED vars
  BY <1>5 DEF vars
<1> QED
  BY <1>1, <1>2, <1>3, <1>4, <1>5 DEF Next

LEMMA StepProgress == TypeOK /\ Fresh /\ Progress /\ [Next]_vars => Progress'
<1> SUFFICES ASSUME TypeOK, Fresh, Progress, [Next]_vars PROVE Progress'
  OBVIOUS
<1> USE DEF Goto, hostVars
<1>t. TypeOK /\ image \in Nat /\ received \in 0..image /\ NextSlot \in OtaSlot
  BY NextSlotIsSpare, SizeAssumption DEF TypeOK
<1>1. CASE ReadLength
  BY <1>1, <1>t DEF ReadLength, Progress
<1>2. CASE WriteChunk
  <2>1. NextSlot' = NextSlot
    BY <1>2 DEF WriteChunk, NextSlot
  <2>2. image' = image /\ received' = received + Want
    BY <1>2 DEF WriteChunk
  <2>3. ASSUME NEW w \in 0 .. received' - 1
        PROVE  w \in Word /\ slots'[NextSlot][w] = image
    <3>1. w \in 0 .. received - 1 \/ w \in Chunk
      BY <1>t, <2>2, <2>3, WantIsBounded DEF Chunk
    <3>2. w \in Word
      BY <1>2, <3>1 DEF WriteChunk, Fits, Progress
    <3>3. slots'[NextSlot][w] = IF w \in Chunk THEN image ELSE slots[NextSlot][w]
      BY <1>2, <1>t, <3>2 DEF WriteChunk, TypeOK
    <3> QED
      BY <1>2, <3>1, <3>2, <3>3 DEF WriteChunk, Progress
  <2>4. pc' = "activate" => received' = image
    BY <1>2, <1>t, <2>2, WantIsBounded DEF WriteChunk, Complete
  <2> QED
    BY <2>1, <2>2, <2>3, <2>4 DEF Progress
<1>3. CASE HostConnects
  BY <1>3 DEF HostConnects, Fresh, Progress
<1>4. CASE pc' \notin {"writing", "activate"}
  BY <1>4 DEF Progress
<1>5. CASE UNCHANGED <<pc, image, received, slots, selected, booted>>
  BY <1>5 DEF Progress, NextSlot
<1> QED
  BY <1>1, <1>2, <1>3, <1>4, <1>5 DEF Next, OtaStep, Start, MarkCurrentSlotValid, Listen,
     AcceptFails, Accepted, SendInProgress, ReceiveFails, ImageTooLarge, FlashFails,
     ActivateNextPartition, SetStateNew, SendSuccess, SoftwareReset, SendResume, HostWrites,
     HostExits, ConnectionEnds, LedTaskReceives, PowerFails, Restart, vars, flashVars

\* From the activation on, otadata selects the other slot, which holds the whole image, and
\* from the success message on that image is noted to be new.
Installed ==
  pc \in {"setState", "sendSuccess", "rebootDelay"} =>
    /\ selected # booted
    /\ Holds(selected, image)
    /\ pc # "setState" => imgState = "new"

Transfer == TypeOK /\ Fresh /\ Announced /\ Progress /\ Installed

LEMMA StepInstalled == Transfer /\ [Next]_vars => Installed'
<1> SUFFICES ASSUME Transfer, [Next]_vars PROVE Installed'
  OBVIOUS
<1> USE DEF Goto
<1>t. NextSlot \in OtaSlot /\ NextSlot # booted
  BY NextSlotIsSpare DEF Transfer, TypeOK
<1>1. CASE ActivateNextPartition
  <2>1. Holds(NextSlot, image)
    BY <1>1 DEF ActivateNextPartition, Transfer, Progress, Holds
  <2>2. /\ selected' = NextSlot /\ pc' = "setState"
        /\ UNCHANGED <<slots, image, booted>>
    BY <1>1 DEF ActivateNextPartition, Select, Otadata, hostVars
  <2> QED
    BY <1>t, <2>1, <2>2 DEF Installed, Holds
<1>2. CASE SetStateNew
  BY <1>2 DEF SetStateNew, SetState, Otadata, hostVars, Transfer, Installed, Holds
<1>3. CASE UNCHANGED <<image, flashVars, booted>> /\ (pc' = pc \/ SendSuccess)
  BY <1>3 DEF flashVars, SendSuccess, Transfer, Installed, Holds
<1>4. CASE pc' \notin {"setState", "sendSuccess", "rebootDelay"}
  BY <1>4 DEF Installed
<1>5. HostConnects => pc = "listening"
  BY DEF HostConnects, Transfer, Fresh
<1> QED
  BY <1>1, <1>2, <1>3, <1>4, <1>5 DEF Next, OtaStep, Start, MarkCurrentSlotValid, Listen,
     AcceptFails, Accepted, SendInProgress, ReadLength, WriteChunk, ReceiveFails,
     ImageTooLarge, FlashFails, SendSuccess, SoftwareReset, SendResume, HostConnects,
     HostWrites, HostExits, ConnectionEnds, LedTaskReceives, PowerFails, Restart, hostVars, vars

LEMMA InitTransfer == Init => Transfer
BY InitTypeOK DEF Init, Transfer, Fresh, Announced, Progress, Installed

LEMMA StepTransfer == Transfer /\ [Next]_vars => Transfer'
BY StepTypeOK, StepFresh, StepAnnounced, StepProgress, StepInstalled DEF Transfer

\* The restart at the end of a transfer starts the image that was received.
LEMMA RestartBoots ==
  ASSUME Transfer, Next, pc = "rebootDelay", pc' = "off"
  PROVE  booted' # booted /\ Holds(booted', image)
<1>1. selected # booted /\ Holds(selected, image) /\ imgState = "new"
  BY DEF Transfer, Installed
<1>2. Restart(selected, fallback, imgState)
  BY FaultAssumption DEF Next, OtaStep, Start, MarkCurrentSlotValid, Listen, AcceptFails,
     Accepted, SendInProgress, ReadLength, WriteChunk, ReceiveFails, ImageTooLarge,
     FlashFails, ActivateNextPartition, SetStateNew, SendSuccess, SoftwareReset, SendResume,
     HostConnects, HostWrites, HostExits, ConnectionEnds, LedTaskReceives, PowerFails, Goto
<1>3. booted' = selected
  BY <1>1, <1>2 DEF Restart
<1> QED
  BY <1>1, <1>3 DEF Holds

\* It does so from the slot that did not run, whichever flash operations failed before.
THEOREM SuccessIsBooted == Spec => SuccessBootsNewImage
<1>1. Transfer /\ [Next]_vars =>
        [pc = "rebootDelay" /\ pc' = "off" => booted' # booted /\ Holds(booted', image)]_vars
  BY RestartBoots
<1> QED
  BY <1>1, InitTransfer, StepTransfer, PTL DEF Spec, SuccessBootsNewImage
-------------------------------------------------------------------------------
IInv == TypeOK /\ Fresh /\ Safe /\ Announced /\ Progress

LEMMA InitIInv == Init => IInv
BY InitTypeOK DEF Init, IInv, Fresh, Safe, SelectsRunning, SelectedIsComplete, IsComplete,
   SafeFallback, Uncommitted, Unmarked, Marked, Announced, Progress

\* A step leaves this slot alone.
Spared(slot) == slot = "factory" \/ slots'[slot] = slots[slot]

\* A slot that is not written stays complete, and keeps its image.
LEMMA SparedStaysComplete ==
  ASSUME NEW slot, Spared(slot)
  PROVE  /\ IsComplete(slot) => IsComplete(slot)'
         /\ ImageIn(slot)' = ImageIn(slot)
BY DEF Spared, IsComplete, Holds, ImageIn

\* A transfer writes to no slot that otadata may make the bootloader start.
LEMMA WriteSpares ==
  ASSUME IInv, WriteChunk \/ PowerFails
  PROVE  Spared(selected) /\ Spared(booted) /\ (Uncommitted => Spared(fallback))
<1>1. NextSlot \in OtaSlot /\ NextSlot # booted
  BY NextSlotIsSpare DEF IInv, TypeOK
<1>2. CASE pc = "writing"
  <2>1. selected = booted /\ ~Uncommitted
    BY <1>2 DEF IInv, Safe, SelectsRunning, Marked, Uncommitted
  <2> QED
    BY <1>1, <2>1 DEF WriteChunk, PowerFails, Restart, Spared, IInv, TypeOK, Slot
<1>3. CASE pc # "writing"
  BY <1>3 DEF WriteChunk, PowerFails, Goto, Spared
<1> QED
  BY <1>2, <1>3

\* Every step leaves alone what may be started next.
LEMMA StepSpares ==
  ASSUME IInv, [Next]_vars
  PROVE  Spared(selected) /\ Spared(booted) /\ (Uncommitted => Spared(fallback))
BY WriteSpares, OnlyTransferWrites DEF Spared

\* A restart reads an otadata that selects a complete image, and an older one behind it if
\* the image was not marked: one that was selected, or that may be fallen back to.
Restarted(newer, older, state) ==
  /\ Restart(newer, older, state)
  /\ \/ newer = selected
     \/ Uncommitted /\ newer = fallback /\ older = "factory" /\ state = "undefined"
  /\ state \in {"new", "pending"} => state = imgState /\ older = fallback

LEMMA RestartReads ==
  ASSUME IInv, SoftwareReset \/ PowerFails
  PROVE  \E newer, older \in Slot, state \in {"undefined", "new", "pending", "valid"} :
           Restarted(newer, older, state)
<1> USE DEF Slot
<1>t. selected \in Slot /\ fallback \in Slot
        /\ imgState \in {"undefined", "new", "pending", "valid"}
  BY DEF IInv, TypeOK
<1>1. CASE Restart(selected, fallback, imgState)
  BY <1>1, <1>t DEF Restarted
<1>2. CASE pc = "activate" /\ Restart(selected, "factory", imgState)
  <2>1. imgState \notin {"new", "pending"}
    BY <1>2 DEF IInv, Safe, Marked, Unmarked
  <2> QED
    BY <1>2, <1>t, <2>1 DEF Restarted
<1>3. CASE Uncommitted /\ Restart(fallback, "factory", "undefined")
  BY <1>3, <1>t DEF Restarted
<1> QED
  BY <1>1, <1>2, <1>3 DEF SoftwareReset, PowerFails, Uncommitted

LEMMA RestartIsSafe ==
  ASSUME IInv, [Next]_vars, SoftwareReset \/ PowerFails
  PROVE  Safe'
<1>1. PICK newer \in Slot, older \in Slot, state \in {"undefined", "new", "pending", "valid"} :
        Restarted(newer, older, state)
  BY RestartReads
<1>2. /\ newer = selected \/ (Uncommitted /\ newer = fallback)
      /\ state \in {"new", "pending"} => Unmarked /\ older = fallback
  BY <1>1 DEF Restarted, Unmarked
<1>3. IsComplete(newer) /\ Spared(newer)
  BY <1>2, StepSpares DEF IInv, Safe, SelectedIsComplete, SafeFallback
<1>4. state \in {"new", "pending"} => IsComplete(older) /\ Spared(older)
  BY <1>2, StepSpares DEF IInv, Safe, SafeFallback, Uncommitted
<1>5. IsComplete(newer)' /\ (state \in {"new", "pending"} => IsComplete(older)')
  BY <1>3, <1>4, SparedStaysComplete
<1>6. /\ pc' = "off" /\ selected' = booted'
      /\ \/ selected' = newer /\ fallback' = older /\ (imgState' = state \/ state = "new")
         \/ state = "pending" /\ selected' = older /\ imgState' = "undefined"
  BY <1>1 DEF Restarted, Restart, Otadata
<1>7. IsComplete(selected)'
  <2>1. CASE selected' = newer
    BY <1>5, <2>1 DEF IsComplete, Holds
  <2>2. CASE state = "pending" /\ selected' = older
    BY <1>5, <2>2 DEF IsComplete, Holds
  <2> QED
    BY <1>6, <2>1, <2>2
<1>8. Unmarked' => IsComplete(fallback)'
  <2> SUFFICES ASSUME Unmarked' PROVE IsComplete(fallback)'
    OBVIOUS
  <2>1. fallback' = older /\ state \in {"new", "pending"}
    BY <1>6 DEF Unmarked
  <2> QED
    BY <1>5, <2>1 DEF IsComplete, Holds
<1> QED
  BY <1>6, <1>7, <1>8 DEF Safe, SelectsRunning, SelectedIsComplete, SafeFallback, Uncommitted,
     Marked

\* The steps that read or write otadata.
OtadataStep ==
  SoftwareReset \/ PowerFails \/ ActivateNextPartition \/ SetStateNew \/ MarkCurrentSlotValid

\* Any other step leaves otadata alone, and what the slots it selects hold.
LEMMA OtherStep ==
  ASSUME "setState" \notin FlashFaults, IInv, [Next]_vars, ~OtadataStep
  PROVE  /\ UNCHANGED <<selected, fallback, imgState, booted>>
         /\ SelectsRunning' /\ Marked' /\ (pc' = "setState" <=> pc = "setState")
BY FaultAssumption DEF OtadataStep, Next, OtaStep, Start, Listen, AcceptFails, Accepted,
   SendInProgress, ReadLength, WriteChunk, ReceiveFails, ImageTooLarge, FlashFails,
   SendSuccess, SendResume, HostConnects, HostWrites, HostExits, ConnectionEnds,
   LedTaskReceives, Goto, SelectsRunning, Marked, Unmarked, Safe, IInv, flashVars, vars

LEMMA StepSafe ==
  ASSUME "setState" \notin FlashFaults, "marking" \notin FlashFaults, IInv, [Next]_vars
  PROVE  Safe'
<1> USE DEF Goto, Safe, SelectsRunning, SelectedIsComplete, SafeFallback, Marked, Uncommitted,
    Unmarked
<1>t. TypeOK /\ selected \in Slot /\ fallback \in Slot /\ NextSlot \in OtaSlot /\ NextSlot # booted
  BY NextSlotIsSpare DEF IInv, TypeOK
<1>2. CASE SoftwareReset \/ PowerFails
  BY <1>2, RestartIsSafe
<1>3. CASE ActivateNextPartition
  <2>1. selected = booted /\ IsComplete(selected) /\ image \in Image /\ received = image
    BY <1>3 DEF ActivateNextPartition, IInv, Announced, Progress
  <2>2. Holds(NextSlot, image)
    BY <1>3, <2>1 DEF ActivateNextPartition, IInv, Progress, Holds
  <2>3. selected' = NextSlot /\ fallback' = selected /\ imgState' = "undefined" /\ slots' = slots
    BY <1>3, <1>t, <2>1 DEF ActivateNextPartition, Select, Otadata
  <2>4. IsComplete(selected)' /\ IsComplete(fallback)'
    BY <2>1, <2>2, <2>3 DEF IsComplete, Holds
  <2> QED
    BY <1>3, <2>3, <2>4 DEF ActivateNextPartition
<1>4. CASE SetStateNew
  <2>1. UNCHANGED <<selected, fallback, slots>> /\ IsComplete(fallback) /\ IsComplete(selected)
    BY <1>4 DEF SetStateNew, SetState, Otadata, IInv
  <2>2. IsComplete(selected)' /\ IsComplete(fallback)'
    BY <2>1 DEF IsComplete, Holds
  <2> QED
    BY <1>4, <2>2 DEF SetStateNew
<1>5. CASE MarkCurrentSlotValid
  <2>1. /\ UNCHANGED <<selected, slots, booted>> /\ imgState' \notin {"new", "pending"}
        /\ pc = "marking" /\ pc' = "accept" /\ IsComplete(selected)
    BY <1>5 DEF MarkCurrentSlotValid, SetState, Otadata, IInv
  <2>2. IsComplete(selected)'
    BY <2>1 DEF IsComplete, Holds
  <2> QED
    BY <2>1, <2>2 DEF IInv
<1>6. CASE ~OtadataStep
  <2>1. /\ UNCHANGED <<selected, fallback, imgState, booted>>
        /\ SelectsRunning' /\ Marked' /\ (pc' = "setState" <=> pc = "setState")
    BY <1>6, OtherStep
  <2>2. IsComplete(selected)'
    <3>1. PICK slot : slot = selected
      OBVIOUS
    <3>2. IsComplete(slot)'
      BY <3>1, StepSpares, SparedStaysComplete DEF IInv
    <3> QED
      BY <2>1, <3>1, <3>2
  <2>3. Uncommitted' => IsComplete(fallback)'
    <3>1. PICK slot : slot = fallback
      OBVIOUS
    <3>2. Uncommitted => IsComplete(slot)'
      BY <3>1, StepSpares, SparedStaysComplete DEF IInv
    <3> QED
      BY <2>1, <3>1, <3>2
  <2> QED
    BY <2>1, <2>2, <2>3
<1> QED
  BY <1>2, <1>3, <1>4, <1>5, <1>6 DEF OtadataStep

LEMMA StepIInv ==
  "setState" \notin FlashFaults /\ "marking" \notin FlashFaults /\ IInv /\ [Next]_vars => IInv'
BY StepTypeOK, StepFresh, StepAnnounced, StepProgress, StepSafe DEF IInv

\* As long as setting an image state does not fail: whenever power fails or the device
\* restarts, otadata selects an image that was received in full.
THEOREM UpdateIsCrashSafe ==
  ASSUME "setState" \notin FlashFaults, "marking" \notin FlashFaults
  PROVE  Spec => []SelectedIsComplete
<1>1. IInv => SelectedIsComplete
  BY DEF IInv, Safe
<1> QED
  BY <1>1, InitIInv, StepIInv, PTL DEF Spec
-------------------------------------------------------------------------------
\* A complete slot holds an image that can be installed.
LEMMA CompleteImage ==
  ASSUME NEW slot \in OtaSlot, IsComplete(slot)
  PROVE  ImageIn(slot) \in Image
<1>1. PICK img \in Image : Holds(slot, img)
  BY DEF IsComplete, OtaSlot
<1>2. 0 \in 0 .. img - 1
  BY SizeAssumption
<1> QED
  BY <1>1, <1>2 DEF Holds, ImageIn, OtaSlot

\* What a restart may bring back.
SpareSlot == IF Uncommitted THEN fallback ELSE selected

LEMMA InitStore == Init => Store!Init
BY DEF Init, Store!Init, ImageIn

\* Selecting the new slot installs its image.
LEMMA ActivationInstalls ==
  ASSUME IInv, ActivateNextPartition
  PROVE  \E img \in Image : Store!Install(img)
<1>t. NextSlot \in OtaSlot /\ NextSlot # booted
  BY NextSlotIsSpare DEF IInv, TypeOK
<1>1. pc = "activate" /\ pc' = "setState" /\ selected = booted /\ ~Unmarked
  BY DEF ActivateNextPartition, Goto, IInv, Safe, SelectsRunning, Marked
<1>2. selected' = NextSlot /\ fallback' = selected /\ UNCHANGED <<slots, booted>>
  BY <1>t, <1>1 DEF ActivateNextPartition, Select, Otadata
<1>3. IsComplete(NextSlot)
  BY <1>1 DEF IInv, Announced, Progress, IsComplete, Holds
<1>4. ImageIn(NextSlot) \in Image
  BY <1>t, <1>3, CompleteImage
<1>5. \A slot : ImageIn(slot)' = ImageIn(slot)
  BY <1>2 DEF ImageIn, IsComplete, Holds
<1>6. Store!Install(ImageIn(NextSlot))
  BY <1>1, <1>2, <1>5 DEF Store!Install, Unmarked
<1> QED
  BY <1>4, <1>6

\* A restart starts what is selected or what may be fallen back to, and forgets the latter
\* unless the image is still unmarked.
LEMMA RestartRestarts ==
  ASSUME IInv, [Next]_vars, SoftwareReset \/ PowerFails
  PROVE  Store!Restart
<1>1. PICK newer \in Slot, older \in Slot, state \in {"undefined", "new", "pending", "valid"} :
        Restarted(newer, older, state)
  BY RestartReads
<1>2. /\ newer = selected \/ (Uncommitted /\ newer = fallback)
      /\ state \in {"new", "pending"} => Uncommitted /\ older = fallback
  BY <1>1 DEF Restarted, Unmarked, Uncommitted
<1>3. /\ ImageIn(newer)' = ImageIn(newer)
      /\ state \in {"new", "pending"} => ImageIn(older)' = ImageIn(older)
  BY <1>2, StepSpares, SparedStaysComplete
<1>4. ImageIn(newer) \in {ImageIn(selected), ImageIn(SpareSlot)}
  BY <1>2 DEF SpareSlot
<1>5. state \in {"new", "pending"} => ImageIn(older) = ImageIn(SpareSlot)
  BY <1>2 DEF SpareSlot
<1>6. /\ pc' = "off" /\ selected' = booted'
      /\ \/ selected' = newer /\ fallback' = older /\ (imgState' = state \/ state = "new")
         \/ state = "pending" /\ selected' = older /\ imgState' = "undefined"
  BY <1>1 DEF Restarted, Restart, Otadata
<1>7. CASE selected' = newer /\ fallback' = older /\ (imgState' = state \/ state = "new")
  <2>1. ImageIn(selected)' = ImageIn(newer)
    BY <1>3, <1>7 DEF ImageIn, IsComplete, Holds
  <2>2. ImageIn(SpareSlot)' \in {ImageIn(SpareSlot), ImageIn(selected)'}
    <3>1. CASE state \in {"new", "pending"}
      <4>1. ImageIn(fallback)' = ImageIn(SpareSlot)
        BY <1>3, <1>5, <1>7, <3>1 DEF ImageIn, IsComplete, Holds
      <4> QED
        BY <4>1 DEF SpareSlot
    <3>2. CASE state \notin {"new", "pending"}
      BY <1>6, <1>7, <3>2 DEF SpareSlot, Uncommitted, Unmarked
    <3> QED
      BY <3>1, <3>2
  <2> QED
    BY <1>4, <1>6, <2>1, <2>2 DEF Store!Restart, SpareSlot, Uncommitted
<1>8. CASE state = "pending" /\ selected' = older /\ imgState' = "undefined"
  <2>1. ImageIn(selected)' = ImageIn(SpareSlot)
    BY <1>3, <1>5, <1>8 DEF ImageIn, IsComplete, Holds
  <2>2. SpareSlot' = selected'
    BY <1>6, <1>8 DEF SpareSlot, Uncommitted, Unmarked
  <2> QED
    BY <1>6, <2>1, <2>2 DEF Store!Restart, SpareSlot, Uncommitted
<1> QED
  BY <1>6, <1>7, <1>8

LEMMA StepStore ==
  ASSUME "setState" \notin FlashFaults, "marking" \notin FlashFaults, IInv, [Next]_vars
  PROVE  [Store!Next]_(Store!vars)
<1>1. CASE SoftwareReset \/ PowerFails
  BY <1>1, RestartRestarts DEF Store!Next
<1>2. CASE ActivateNextPartition
  BY <1>2, ActivationInstalls DEF Store!Next
<1>3. CASE MarkCurrentSlotValid
  <2>1. /\ UNCHANGED <<selected, slots, booted>> /\ imgState' \notin {"new", "pending"}
        /\ pc' = "accept"
    BY <1>3 DEF MarkCurrentSlotValid, SetState, Otadata, Goto, Unmarked
  <2>2. \A slot : ImageIn(slot)' = ImageIn(slot)
    BY <2>1 DEF ImageIn, IsComplete, Holds
  <2>3. Store!Keep
    BY <2>1, <2>2 DEF Store!Keep, Unmarked
  <2> QED
    BY <2>3 DEF Store!Next
<1>4. CASE SetStateNew
  <2>1. /\ UNCHANGED <<selected, fallback, slots, booted>>
        /\ pc = "setState" /\ imgState' = "new"
    BY <1>4 DEF SetStateNew, SetState, Otadata, Goto
  <2>2. \A slot : ImageIn(slot)' = ImageIn(slot)
    BY <2>1 DEF ImageIn, IsComplete, Holds
  <2> QED
    BY <2>1, <2>2 DEF Store!vars, Unmarked
<1>5. CASE ~OtadataStep
  <2>1. /\ UNCHANGED <<selected, fallback, imgState, booted>>
        /\ pc' = "setState" <=> pc = "setState"
    BY <1>5, OtherStep
  <2>2. \A slot : slot \in {selected, booted, SpareSlot} => ImageIn(slot)' = ImageIn(slot)
    BY StepSpares, SparedStaysComplete DEF SpareSlot
  <2> QED
    BY <2>1, <2>2 DEF Store!vars, SpareSlot, Uncommitted, Unmarked, ImageIn, IsComplete, Holds
<1> QED
  BY <1>1, <1>2, <1>3, <1>4, <1>5 DEF OtadataStep

\* As long as setting an image state does not fail, an update is one step: the chunks, the
\* otadata writes, the power failures in the middle of them and either bootloader implement
\* the store that replaces its selected image atomically.
THEOREM UpdateImplementsStore ==
  ASSUME "setState" \notin FlashFaults, "marking" \notin FlashFaults
  PROVE  Spec => UpdateIsAtomic
BY InitIInv, StepIInv, InitStore, StepStore, PTL DEF Spec, Store!Spec, UpdateIsAtomic
===============================================================================
