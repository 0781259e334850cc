---------------------------- MODULE MCCharDrivers ----------------------------
(* Instances of CharDrivers for TLC. *)
EXTENDS CharDrivers

CONSTANT u1

\* Drivers that share a pin, a class name or a major number, one pair for
\* each combination of error paths; drivers that share nothing do not meet.
Neighbours ==
    {{"gpio2", "lcd_my"}, {"gpio2", "lcd_j"}, {"gpio2", "lcd_4bit"},
     {"lcd", "lcd_4bit"},
     {"read_write", "read_write_my"}, {"read_write_my", "dev_nr"}}

\* One driver on its own.
Alone == {{"read_write"}}

\* Every acquisition may fail.
Everything == Kinds \cup {"output"}
Classes == {"class", "node"}

=============================================================================
