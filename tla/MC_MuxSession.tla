---------------------------- MODULE MC_MuxSession ----------------------------
(***************************************************************************)
(* Command lines for MuxSession: without a ping, where silence of the line *)
(* may end a session at any time, and with a ping.                         *)
(***************************************************************************)
EXTENDS MuxSession

MCCmdLines == { [cmux_mode |-> "basic", use_ping |-> 0, use_timeout |-> TRUE],
                [cmux_mode |-> "advanced", use_ping |-> 1, use_timeout |-> FALSE] }

(* Two hang-ups; one, and one thing that goes wrong; or one that goes wrong*)
(* at any time.                                                            *)
MCBudgets == { [hangups |-> 2, odd |-> 0, early |-> FALSE],
               [hangups |-> 1, odd |-> 1, early |-> FALSE],
               [hangups |-> 0, odd |-> 1, early |-> TRUE] }
=============================================================================
