---------------------------- MODULE MCSecureBytes ----------------------------
(* Small instances of SecureBytes for TLC.                                  *)
EXTENDS SecureBytes

CONSTANTS g1, g2, gc, a, b, c, page1, page2, page3, x, y

(* Every buffer on a page of its own.                                       *)
OwnPages == [k \in Containers |-> CASE k = a -> page1
                                    [] k = b -> page2
                                    [] k = c -> page3]

(* Small buffers share a page, as the Go allocator lays them out.           *)
SharedPage == [k \in Containers |-> page1]
=============================================================================
