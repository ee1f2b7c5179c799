------------------------------ MODULE MCDoctor ------------------------------
(* Two forward chains, one of them ufw's, and one libvirt bridge. *)
EXTENDS Doctor

CONSTANTS docker, ufw, virbr0
=============================================================================
