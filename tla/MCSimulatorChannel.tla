------------------------- MODULE MCSimulatorChannel -------------------------
(***************************************************************************)
(* A small instance of the channel.  Its commands are a few of the         *)
(* library's whose shapes between them use every field: no operand, one    *)
(* operand, two operands with a message, a read with an operand and a read *)
(* selected by its message.  ASSUME checks that against the whole library. *)
(***************************************************************************)
EXTENDS SimulatorChannel

Lib == INSTANCE PliComplianceLib

MCCmd ==
  {"CanAgentMonitorStart", "MemBusAgentWrite32", "CanAgentMonitorPushItemMsg",
   "MemBusAgentRead32", "TestControllerAgentGetBitTimingElement"}

MCReads       == {c \in MCCmd : Lib!ShapeOf(c).reads}
MCWithDataIn  == {c \in MCCmd : Lib!ShapeOf(c).data_in}
MCWithDataIn2 == {c \in MCCmd : Lib!ShapeOf(c).data_in_2}
MCWithMessage == {c \in MCCmd : Lib!ShapeOf(c).message}

\* A field some command of the library fills, together with any other field or
\* without it, is filled in that combination by a command of the instance.
ASSUME ShapesCovered ==
  \A c \in Lib!Commands :
    \A f \in DOMAIN Lib!ShapeOf(c) :
      \E d \in MCCmd : Lib!ShapeOf(d)[f] = Lib!ShapeOf(c)[f]

\* The two overloads differ in the message only, and a command that reads never
\* fills pli_data_in_2.
ASSUME ShapesOfTheLibrary ==
  /\ {Lib!ShapeOf(c) : c \in Lib!Commands} = Lib!Shapes
  /\ \A c \in Lib!Commands : ~(Lib!ShapeOf(c).reads /\ Lib!ShapeOf(c).data_in_2)
=============================================================================
