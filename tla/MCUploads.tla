----------------------------- MODULE MCUploads ------------------------------
(* Two gateways and one user, or clients that have not logged in.  Frames  *)
(* of 20 bytes whose header says anything from 0 to the largest length.    *)
EXTENDS Uploads

CONSTANTS g1, g2, f1

Frame(length, seq, parses) ==
    [head |-> EncodeHeader([length |-> length, version |-> 1,
                            cmd_id |-> GetUploadUrlReq, seq_id |-> seq]),
     len |-> 20, parses |-> parses]

SomeFrames ==
    {Frame(20, U32 - 2, TRUE), Frame(0, 7, FALSE), Frame(11, 7, FALSE),
     Frame(21, 7, TRUE), Frame(U32 - 1, 7, TRUE)}

Sizes == [ok \in BOOLEAN |-> IF ok THEN 200 ELSE 24]

=============================================================================
