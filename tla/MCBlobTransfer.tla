--------------------------- MODULE MCBlobTransfer ---------------------------
(***************************************************************************)
(* BlobTransfer with one blob in each direction.  The last chunk of the    *)
(* long one leaves no room for acknowledgements unless its name goes with  *)
(* it, and the chunk of the short one leaves none if its name does.        *)
(***************************************************************************)
EXTENDS BlobTransfer

CONSTANTS Left, Right, Long, Short

Couriers == {Left, Right}
Blobs == {Long, Short}
Owners == [b \in Blobs |-> IF b = Long THEN Left ELSE Right]
Totals == [b \in Blobs |-> IF b = Long THEN 2 ELSE 1]
LastSizes == [b \in Blobs |-> IF b = Long THEN 394 ELSE 380]
NameSizes == [b \in Blobs |-> 8]
\* The long blob alone, with packets that overtake each other; both blobs, with packets
\* that cross; and both with up to four acknowledgements behind the id of one that is done.
MCSettings == {<<{Long}, 3, 3, 0>>, <<Blobs, 1, 2, 0>>, <<Blobs, 1, 1, 2>>}
=============================================================================
