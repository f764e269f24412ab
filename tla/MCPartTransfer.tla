---------------------------- MODULE MCPartTransfer ----------------------------
EXTENDS PartTransfer

(* An empty file; three parts of an upload; two, called again after the     *)
(* first call; a full chunk and then none; two chunks, the last one short.  *)
SomeFiles ==
  {<<"upload", 0, 1, 2>>, <<"upload", 300 * KB, 1, 2>>, <<"upload", 200 * KB, 2, 1>>,
   <<"download", 256 * KB, 2, 2>>, <<"download", 300 * KB, 1, 2>>, <<"download", 300 * KB, 2, 1>>}
=============================================================================
