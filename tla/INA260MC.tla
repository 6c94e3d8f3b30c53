------------------------------ MODULE INA260MC ------------------------------
(***************************************************************************)
(* INA260 with the widths of the chip and of a board of 16 bits, the       *)
(* settings the examples of the library use and their defaults.            *)
(***************************************************************************)
EXTENDS INA260

SomeValues ==
  [mode |-> {0, 3}, averagingCount |-> {1, 7}, currentConversionTime |-> {0},
   voltageConversionTime |-> {7}, alertType |-> {8, 32}, alertLimit |-> {13, -9},
   alertPolarity |-> {1}, alertLatch |-> {1}]

SomeSamples ==
  [CURRENT |-> {Low(16) \ {0}, {8, 1}}, BUSVOLTAGE |-> {{13, 3}}, POWER |-> {{9, 0}}]

(* The right one, one of another make and one of another type. *)
SomeChips ==
  {<<Manufacturer, Shl(Device, 4)>>, <<Manufacturer, Shl(Device, 3)>>,
   <<{1}, Shl(Device, 4)>>}
=============================================================================
