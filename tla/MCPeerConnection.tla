------------------------- MODULE MCPeerConnection ---------------------------
(* Instances of PeerConnection for TLC.                                    *)
EXTENDS PeerConnection, TLC

\* The slots of the pool are interchangeable, and so are the remote nodes.
ConnSymmetry == Permutations(Conn) \cup Permutations(Peer)
=============================================================================
