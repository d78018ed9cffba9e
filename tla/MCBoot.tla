-------------------------------- MODULE MCBoot --------------------------------
(* Instance of Boot.                                                       *)
EXTENDS Boot

(* The second save of a file names what the starter text of the one before *)
(* does not declare, and the first save takes out what the next one names. *)
MCClash == { << 0, 2 >>, << 1, 0 >> }
=============================================================================
