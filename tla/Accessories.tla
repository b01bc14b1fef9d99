---------------------------- MODULE Accessories ----------------------------
(***************************************************************************)
(* What is plugged into a wired pad: a chatpad, and a headset that plays     *)
(* one file and records another through a USBInterface (headset.cpp,         *)
(* usb_interface.cpp, xbox360_controller.cpp). They share the device handle  *)
(* with the controller, have transfers of their own, and are destroyed with  *)
(* the controller whatever they wait for.                                   *)
(*                                                                         *)
(* libusb is external: what was submitted calls back once, with an error if *)
(* the device is gone before it is through. Whatever throws in a callback    *)
(* leaves the main loop and ends the program.                               *)
(***************************************************************************)
EXTENDS Chatpad

CONSTANTS
  Setups,      \* what the options ask for
  Reports,     \* keys and modifiers of the chatpad's reports
  MaxFaults,   \* bound: failures while the device is there
  MaxLights    \* bound: LED requests in flight

ASSUME SetupsAssumption ==
  /\ \A s \in Setups : {s.chatpad, s.no_init, s.known, s.dump} \subseteq BOOLEAN /\ s.chunks \in Nat
  /\ \A r \in Reports : Cardinality(r \ Mods) <= 2

VARIABLES
  setup,
  phase,       \* "new", "running", "destroyed", or "ended" by an exception
  device,      \* "present" or "gone"
  chatpad,
  headset,     \* the chunks left to play, and whether something was recorded
  flight,      \* the transfers of its interface in flight
  faults       \* history: failures while the device was there

accessories_vars == <<setup, phase, device, chatpad, headset, flight, faults>>

Running == phase = "running"

AccessoriesInit ==
  /\ setup \in Setups
  /\ phase = "new" /\ device = "present"
  /\ chatpad = IF setup.chatpad THEN NewChatpad(setup.no_init) ELSE NoChatpad
  /\ headset = [left |-> setup.chunks, recorded |-> FALSE]
  /\ flight = {}
  /\ faults = 0

-----------------------------------------------------------------------------
(* A submission or a transfer fails when the device is gone, or by a fault. *)
Fault ==
  \/ device = "gone" /\ UNCHANGED faults
  \/ device = "present" /\ faults < MaxFaults /\ faults' = faults + 1
Works(ok) == (ok /\ UNCHANGED faults) \/ (~ok /\ Fault)

(* An exception leaves the callback and the main loop; what it leaves       *)
(* behind is not followed.                                                   *)
Throws ==
  /\ phase' = "ended" /\ chatpad' = NoChatpad
  /\ UNCHANGED <<setup, device, headset, flight>>

(* USBInterface::submit_read and submit_write. The table m_endpoints holds   *)
(* what is in flight, but for an entry that is erased by a key read from    *)
(* the transfer just freed, and may be left.                                *)
SubmitTransfer(endpoints, endpoint) == endpoints \cup {endpoint}

(* Headset::play_file and record_file; a file shorter than a chunk is not   *)
(* played at all.                                                           *)
Started ==
  LET playing == IF setup.chunks > 0 THEN SubmitTransfer(flight, "out") ELSE flight
  IN  IF setup.dump THEN SubmitTransfer(playing, "in") ELSE playing

(* Xbox360Controller::Xbox360Controller: chatpad, then headset.             *)
ConstructAccessories ==
  /\ phase = "new" /\ device = "present" /\ (setup.chatpad => setup.known)
  /\ phase' = "running"
  /\ chatpad' = IF setup.chatpad THEN SendCommand(chatpad) ELSE chatpad
  /\ flight' = Started
  /\ headset' = [headset EXCEPT !.left = IF @ = 0 THEN 0 ELSE @ - 1]
  /\ UNCHANGED <<setup, device, faults>>

(* The chatpad's version is unknown, or claiming or submitting fails. *)
ConstructThrows ==
  /\ phase = "new"
  /\ IF setup.chatpad /\ ~setup.known THEN UNCHANGED faults ELSE Fault
  /\ Throws

PadUnplugged ==
  /\ phase \in {"new", "running"}
  /\ device = "present" /\ device' = "gone"
  /\ UNCHANGED <<setup, phase, chatpad, headset, flight, faults>>

(* The accessories go with the controller. What becomes of the chatpad's    *)
(* timers and control requests, which nobody cancels (the FIXME in           *)
(* send_timeout), is not followed.                                          *)
DestroyAccessories ==
  /\ Running /\ phase' = "destroyed"
  /\ flight' = {}
  /\ chatpad' = NoChatpad
  /\ UNCHANGED <<setup, device, headset, faults>>

-----------------------------------------------------------------------------
(* The chatpad's callbacks. *)
ControlReturns(ok) ==
  /\ Running /\ chatpad.controls # <<>>
  /\ Works(ok)
  /\ chatpad' = OnControl(chatpad, ok)
  /\ UNCHANGED <<setup, phase, device, headset, flight>>

ControlThrows(ok) ==
  /\ Running /\ chatpad.controls # <<>> /\ ControlSubmits(chatpad, ok)
  /\ Fault
  /\ Throws

TimerFires ==
  /\ Running /\ chatpad.timers > 0
  /\ device = "present"
  /\ chatpad' = OnTimeout(chatpad)
  /\ UNCHANGED <<setup, phase, device, headset, flight, faults>>

TimerThrows == Running /\ chatpad.timers > 0 /\ Fault /\ Throws

(* on_read_data. A report is processed before the read is submitted again;  *)
(* a read that failed is not, and one that could not be is freed.           *)
ReadReport(report) ==
  LET c == Process(chatpad, report)
  IN  /\ Running /\ chatpad.read = "flight"
      /\ Len(c.controls) <= MaxLights
      /\ ProcessSubmits(chatpad, report) => device = "present"
      /\ \E ok \in BOOLEAN :
           /\ Works(ok)
           /\ chatpad' = [c EXCEPT !.read = IF ok /\ device = "present" THEN "flight" ELSE "freed"]
      /\ UNCHANGED <<setup, phase, device, headset, flight>>

ReadThrows(report) ==
  /\ Running /\ chatpad.read = "flight" /\ ProcessSubmits(chatpad, report)
  /\ Fault
  /\ Throws

ReadFails ==
  /\ Running /\ chatpad.read = "flight"
  /\ Fault
  /\ chatpad' = [chatpad EXCEPT !.read = "stopped"]
  /\ UNCHANGED <<setup, phase, device, headset, flight>>

-----------------------------------------------------------------------------
(* The headset's callbacks do not look at the status of their transfer.     *)

CleanedUp(endpoints, endpoint) == endpoints \ {endpoint}

(* Not the code: the file is read for ever. *)
SendDataAgain(left) == TRUE

(* send_data: whether a whole chunk could be read; what is shorter is not   *)
(* played.                                                                  *)
SendData(left) == left > 0

ChunkReturns ==
  /\ Running /\ "out" \in flight
  /\ SendData(headset.left) => device = "present"
  /\ flight' = IF SendData(headset.left) THEN flight ELSE CleanedUp(flight, "out")
  /\ headset' = [headset EXCEPT !.left = IF @ = 0 THEN 0 ELSE @ - 1]
  /\ UNCHANGED <<setup, phase, device, chatpad, faults>>

RecordReturns ==
  /\ Running /\ "in" \in flight /\ device = "present"
  /\ headset' = [headset EXCEPT !.recorded = TRUE]
  /\ UNCHANGED <<setup, phase, device, chatpad, flight, faults>>

(* A read of the headset that ends with the device is submitted again too.  *)
SubmitThrows ==
  /\ Running
  /\ "in" \in flight \/ ("out" \in flight /\ SendData(headset.left))
  /\ Fault
  /\ Throws

-----------------------------------------------------------------------------
AccessoriesNext ==
  \/ ConstructAccessories \/ ConstructThrows \/ PadUnplugged \/ DestroyAccessories
  \/ \E ok \in BOOLEAN : ControlReturns(ok) \/ ControlThrows(ok)
  \/ TimerFires \/ TimerThrows
  \/ (\E r \in Reports : ReadReport(r) \/ ReadThrows(r)) \/ ReadFails
  \/ ChunkReturns \/ RecordReturns \/ SubmitThrows

(* The main loop dispatches timers and finished transfers. *)
AccessoriesFairness ==
  /\ WF_accessories_vars(\E ok \in BOOLEAN : ControlReturns(ok))
  /\ WF_accessories_vars(TimerFires \/ TimerThrows)
  /\ WF_accessories_vars(ChunkReturns \/ SubmitThrows)

AccessoriesSpec == AccessoriesInit /\ [][AccessoriesNext]_accessories_vars /\ AccessoriesFairness

-----------------------------------------------------------------------------
(* The conversation with the chatpad goes on as long as the device is there *)
(* and no request it needs is lost: the two that keep it awake reach it     *)
(* again and again, in whatever order timers, LEDs and answers come.        *)
Talking == Running /\ setup.chatpad /\ device = "present" /\ ~chatpad.lost
KeepAliveContinues ==
  \A request \in {"1e", "1f"} : Talking ~> (chatpad.heard = request \/ ~Talking)

(* The keyboard and the LEDs are what the driver takes them to be once no   *)
(* request is on its way: keys the last report had are down and no others,  *)
(* and the LEDs lit are those it remembers as lit.                          *)
ChatpadFollows ==
  (Running /\ chatpad.controls = <<>> /\ ~chatpad.lost)
    => /\ chatpad.down = chatpad.held \ Unmapped
       /\ chatpad.lit = chatpad.led

(* Playing comes to its end, whatever becomes of the writes. *)
PlaybackEnds == ("out" \in flight) ~> ("out" \notin flight \/ ~Running)
=============================================================================
