---------------------------- MODULE MCControlStream ----------------------------
(* ControlStream with every configuration of host and client and small     *)
(* numbers of messages.                                                    *)
EXTENDS ControlStream
================================================================================
