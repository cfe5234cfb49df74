---------------------------- MODULE TapController ----------------------------
(* The sixteen states of an IEEE 1149.1 TAP controller, from the copy that    *)
(* wrt54g.c keeps of it for its debug output.                                 *)
TapStates ==
  {"TEST_LOGIC_RESET", "RUN_TEST_IDLE",
   "SELECT_DR_SCAN", "CAPTURE_DR", "SHIFT_DR", "EXIT1_DR", "PAUSE_DR", "EXIT2_DR",
   "UPDATE_DR",
   "SELECT_IR_SCAN", "CAPTURE_IR", "SHIFT_IR", "EXIT1_IR", "PAUSE_IR", "EXIT2_IR",
   "UPDATE_IR"}

(* The next state on a rising edge of TCK with TMS low, and with TMS high. *)
OnLow == [TEST_LOGIC_RESET |-> "RUN_TEST_IDLE",  RUN_TEST_IDLE |-> "RUN_TEST_IDLE",
          SELECT_DR_SCAN   |-> "CAPTURE_DR",     SELECT_IR_SCAN |-> "CAPTURE_IR",
          CAPTURE_DR       |-> "SHIFT_DR",       CAPTURE_IR |-> "SHIFT_IR",
          SHIFT_DR         |-> "SHIFT_DR",       SHIFT_IR |-> "SHIFT_IR",
          EXIT1_DR         |-> "PAUSE_DR",       EXIT1_IR |-> "PAUSE_IR",
          PAUSE_DR         |-> "PAUSE_DR",       PAUSE_IR |-> "PAUSE_IR",
          EXIT2_DR         |-> "SHIFT_DR",       EXIT2_IR |-> "SHIFT_IR",
          UPDATE_DR        |-> "RUN_TEST_IDLE",  UPDATE_IR |-> "RUN_TEST_IDLE"]
OnHigh == [TEST_LOGIC_RESET |-> "TEST_LOGIC_RESET", RUN_TEST_IDLE |-> "SELECT_DR_SCAN",
           SELECT_DR_SCAN   |-> "SELECT_IR_SCAN",   SELECT_IR_SCAN |-> "TEST_LOGIC_RESET",
           CAPTURE_DR       |-> "EXIT1_DR",         CAPTURE_IR |-> "EXIT1_IR",
           SHIFT_DR         |-> "EXIT1_DR",         SHIFT_IR |-> "EXIT1_IR",
           EXIT1_DR         |-> "UPDATE_DR",        EXIT1_IR |-> "UPDATE_IR",
           PAUSE_DR         |-> "EXIT2_DR",         PAUSE_IR |-> "EXIT2_IR",
           EXIT2_DR         |-> "UPDATE_DR",        EXIT2_IR |-> "UPDATE_IR",
           UPDATE_DR        |-> "SELECT_DR_SCAN",   UPDATE_IR |-> "SELECT_DR_SCAN"]
NextTap(s, tms) == IF tms = 0 THEN OnLow[s] ELSE OnHigh[s]
==============================================================================
