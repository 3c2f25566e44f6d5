--------------------------- MODULE MCFileTransfer ---------------------------
(***************************************************************************)
(* An instance of FileTransfer for TLC: files of two chunks that are sent  *)
(* as announced, with a corrupt chunk, shrunk or grown, three chunks, and  *)
(* an empty file.                                                          *)
(***************************************************************************)
EXTENDS FileTransfer

Sent(nb, sent, bad) == [nb |-> nb, sent |-> sent, bad |-> bad]

Transfers ==
    { Sent(0, 0, {}), Sent(1, 1, {}), Sent(2, 1, {}), Sent(2, 2, {}),
      Sent(2, 2, {1}), Sent(2, 2, {2}), Sent(2, 3, {}), Sent(2, 3, {1}),
      Sent(2, 4, {}), Sent(3, 3, {}) }
=============================================================================
