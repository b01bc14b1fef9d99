-------------------------- MODULE MCXboxdrvDaemon --------------------------
(* Small instances of XboxdrvDaemon: a receiver with two ports and wired pads. *)
EXTENDS XboxdrvDaemon, TLC

CONSTANTS receiver, pad1, pad2, port0, port1, wired1, wired2, none

MCDeviceOf ==
  [c \in Controllers |-> CASE c \in {port0, port1} -> receiver
                           [] c = wired1 -> pad1
                           [] c = wired2 -> pad2]
MCPorts ==
  [d \in Devices |->
     CASE d = receiver -> SelectSeq(<<port0, port1>>, LAMBDA c : c \in Controllers)
       [] d = pad1 -> <<wired1>>
       [] d = pad2 -> <<wired2>>]
MCMatches == [s \in RuleSlots |-> {receiver}]
MCMatchesNothing == [s \in RuleSlots |-> {}]
=============================================================================
