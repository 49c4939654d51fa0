---------------------------- MODULE MCIpcServer ----------------------------
(* Instances of IpcServer for TLC.                                         *)
EXTENDS IpcServer, TLC

MCSizes == {3, 6, 12}

ClientSymmetry == Permutations(Clients)
=============================================================================
