--------------------------- MODULE USBController ---------------------------
(***************************************************************************)
(* The asynchronous USB transfers of one controller (usb_controller.cpp):   *)
(* the read that is submitted again by its own callback, writes and control *)
(* requests, the device being pulled at any point, a constructor that       *)
(* throws after the read was submitted, and the destructor, which cancels   *)
(* everything and runs the event loop until the last callback was there.    *)
(*                                                                         *)
(* libusb is modelled by what these functions rely on: a submitted transfer *)
(* calls back once, with a status that fits what happened to it.            *)
(***************************************************************************)
CONSTANT Transfers   \* libusb_transfer objects; free ones are used again

Kinds == {"free", "read", "write"}      \* control requests are as writes
Lives == {"constructing", "constructed", "alive", "destructing", "destroyed",
          "terminated"}

VARIABLES
  life,             \* of the controller object
  plugged,          \* the device is there
  kind,             \* per transfer what it was allocated for
  m_transfers,      \* the transfers the controller knows of
  pending,          \* submitted to libusb, callback not yet run
  cancelled,        \* those of them that libusb_cancel_transfer was called for
  m_is_disconnected,
  has_cb,           \* m_disconnect_cb is set
  told              \* m_disconnect_cb was called

transfers == <<kind, m_transfers, pending, cancelled>>
vars == <<life, plugged, transfers, m_is_disconnected, has_cb, told>>

Init ==
  /\ life = "constructing"
  /\ plugged = TRUE
  /\ kind = [t \in Transfers |-> "free"]
  /\ m_transfers = {} /\ pending = {} /\ cancelled = {}
  /\ m_is_disconnected = FALSE /\ has_cb = FALSE /\ told = FALSE

-----------------------------------------------------------------------------
Unplug ==
  /\ plugged
  /\ plugged' = FALSE
  /\ UNCHANGED <<life, transfers, m_is_disconnected, has_cb, told>>

(* Not the code: the transfer is not entered into m_transfers. *)
SubmitUntracked(t, k) ==
  /\ ~m_is_disconnected /\ plugged
  /\ kind[t] = "free"
  /\ kind' = [kind EXCEPT ![t] = k]
  /\ pending' = pending \cup {t}
  /\ UNCHANGED <<m_transfers, cancelled>>

(* usb_submit_read, usb_write, usb_control when libusb_submit_transfer      *)
(* succeeds; when it fails the transfer is freed and nothing has changed.   *)
Submit(t, k) ==
  /\ ~m_is_disconnected /\ plugged
  /\ kind[t] = "free"
  /\ kind' = [kind EXCEPT ![t] = k]
  /\ pending' = pending \cup {t}
  /\ m_transfers' = m_transfers \cup {t}
  /\ UNCHANGED cancelled

(* Not the code: the destructor leaves m_is_disconnected alone. *)
CancelOnly ==
  /\ life' = "destructing"
  /\ cancelled' = m_transfers
  /\ UNCHANGED m_is_disconnected

(* The destructor as far as it does not wait. *)
Cancel ==
  /\ life' = "destructing"
  /\ m_is_disconnected' = TRUE
  /\ cancelled' = m_transfers

Construct(t) ==
  /\ life = "constructing"
  /\ Submit(t, "read")
  /\ life' = "constructed"
  /\ UNCHANGED <<plugged, m_is_disconnected, has_cb, told>>

(* Opening, claiming or submitting failed, or the chatpad or headset could  *)
(* not be set up after the read was submitted: what is constructed of the   *)
(* controller is destroyed again.                                           *)
ConstructorThrows ==
  /\ life \in {"constructing", "constructed"}
  /\ Cancel
  /\ UNCHANGED <<plugged, kind, m_transfers, pending, has_cb, told>>

(* launch_controller_thread, before any callback can run. *)
SetCallbacks ==
  /\ life = "constructed"
  /\ life' = "alive" /\ has_cb' = TRUE
  /\ UNCHANGED <<plugged, transfers, m_is_disconnected, told>>

(* set_led_real, set_rumble_real and the like. *)
Write(t) ==
  /\ life = "alive"
  /\ Submit(t, "write")
  /\ UNCHANGED <<life, plugged, m_is_disconnected, has_cb, told>>

Destroy ==
  /\ life = "alive"
  /\ Cancel
  /\ UNCHANGED <<plugged, kind, m_transfers, pending, has_cb, told>>

DestructorReturns ==
  /\ life = "destructing" /\ m_transfers = {}
  /\ life' = "destroyed"
  /\ UNCHANGED <<plugged, transfers, m_is_disconnected, has_cb, told>>

-----------------------------------------------------------------------------
(* Callbacks run from the main loop or from the loop of the destructor, not *)
(* while the constructor runs.                                              *)
CallsBack(t, k) ==
  /\ life \in {"alive", "destructing"}
  /\ t \in pending /\ kind[t] = k

(* erase and libusb_free_transfer *)
Free(t) ==
  /\ kind' = [kind EXCEPT ![t] = "free"]
  /\ m_transfers' = m_transfers \ {t}
  /\ pending' = pending \ {t}
  /\ cancelled' = cancelled \ {t}

(* Not the code: the flag is not set; the callback is not called. *)
SendDisconnectUnflagged ==
  /\ IF has_cb THEN told' = TRUE /\ UNCHANGED life
               ELSE life' = "terminated" /\ UNCHANGED told
  /\ UNCHANGED m_is_disconnected
SendDisconnectMute == m_is_disconnected' = TRUE /\ UNCHANGED <<life, told>>

(* send_disconnect() calls m_disconnect_cb, set or not: an empty one throws *)
(* out of the callback, and out of the destructor that waits for it.        *)
SendDisconnect ==
  /\ m_is_disconnected' = TRUE
  /\ IF has_cb THEN told' = TRUE /\ UNCHANGED life
               ELSE life' = "terminated" /\ UNCHANGED told

(* on_write_data, on_control *)
WriteReturns(t) ==
  /\ CallsBack(t, "write")
  /\ Free(t)
  /\ UNCHANGED <<life, plugged, m_is_disconnected, has_cb, told>>

(* on_write_data with LIBUSB_TRANSFER_NO_DEVICE *)
WriteFindsNoDevice(t) ==
  /\ CallsBack(t, "write") /\ ~plugged
  /\ Free(t)
  /\ SendDisconnect
  /\ UNCHANGED <<plugged, has_cb>>

(* on_read_data with LIBUSB_TRANSFER_NO_DEVICE *)
ReadFindsNoDevice(t) ==
  /\ CallsBack(t, "read") /\ ~plugged
  /\ Free(t)
  /\ SendDisconnect
  /\ UNCHANGED <<plugged, has_cb>>

(* on_read_data with any other status, once the controller is disconnected, *)
ReadReturnsLate(t) ==
  /\ CallsBack(t, "read") /\ m_is_disconnected
  /\ Free(t)
  /\ UNCHANGED <<life, plugged, m_is_disconnected, has_cb, told>>

(* ... while it is not: data or an error, and the read is submitted again,  *)
ReadReturns(t) ==
  /\ CallsBack(t, "read") /\ ~m_is_disconnected
  /\ plugged
  /\ cancelled' = cancelled \ {t}
  /\ UNCHANGED <<life, plugged, kind, m_transfers, pending, m_is_disconnected, has_cb, told>>

(* or cannot be. *)
ResubmitFails(t) ==
  /\ CallsBack(t, "read") /\ ~m_is_disconnected
  /\ Free(t)
  /\ SendDisconnect
  /\ UNCHANGED <<plugged, has_cb>>

Callback(t) ==
  \/ WriteReturns(t) \/ WriteFindsNoDevice(t)
  \/ ReadFindsNoDevice(t) \/ ReadReturnsLate(t) \/ ReadReturns(t) \/ ResubmitFails(t)

Next ==
  \/ Unplug
  \/ \E t \in Transfers : Construct(t) \/ Write(t) \/ Callback(t)
  \/ ConstructorThrows \/ SetCallbacks \/ Destroy \/ DestructorReturns

Spec == Init /\ [][Next]_vars

(* libusb calls back for a transfer that was cancelled or whose device is   *)
(* gone; the destructor's loop goes on.                                     *)
Fairness ==
  /\ \A t \in Transfers : WF_vars((t \in cancelled \/ ~plugged) /\ Callback(t))
  /\ WF_vars(DestructorReturns)

FairSpec == Spec /\ Fairness

-----------------------------------------------------------------------------
(* Every variable stays in its type. *)
TypeOK ==
  /\ life \in Lives /\ plugged \in BOOLEAN
  /\ kind \in [Transfers -> Kinds]
  /\ m_transfers \subseteq Transfers /\ pending \subseteq Transfers
  /\ cancelled \subseteq Transfers
  /\ m_is_disconnected \in BOOLEAN /\ has_cb \in BOOLEAN /\ told \in BOOLEAN

(* libusb never calls back into a destroyed controller, and no transfer is  *)
(* freed while libusb still has it.                                         *)
NoCallbackLeft ==
  /\ life = "destroyed" => pending = {}
  /\ \A t \in pending : kind[t] # "free"

(* Until it is disconnected a controller has exactly one read in flight:    *)
(* whatever errors its reads return, it neither falls silent nor reads      *)
(* twice.                                                                   *)
OneReadInFlight ==
  life = "alive" /\ ~m_is_disconnected =>
    \E t \in pending : \A u \in pending : kind[u] = "read" <=> u = t

(* A device that is pulled is noticed even if nobody writes to it. *)
UnplugNoticed ==
  (life = "alive" /\ ~plugged) ~> (told \/ life # "alive")

(* The destructor's wait ends. *)
DestructorEnds == (life = "destructing") ~> (life # "destructing")
=============================================================================
