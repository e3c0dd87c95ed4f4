------------------------------- MODULE Padding -------------------------------
(***************************************************************************)
(* The padding of messages before encryption (p2p/encryption.rs), as far   *)
(* as lengths go: a two-byte length, the message, random bytes.            *)
(***************************************************************************)
EXTENDS Integers

PADDING_BLOCK == 256
Prefix        == 65536  \* real_len as u16 keeps the low 16 bits

\* content_len.div_ceil(PADDING_BLOCK) * PADDING_BLOCK.
PaddedLen(n) == ((n + 2 + (PADDING_BLOCK - 1)) \div PADDING_BLOCK) * PADDING_BLOCK

\* pad_message: what a message of length n becomes.
Pad(n) == [len |-> PaddedLen(n), real |-> n % Prefix]

\* unpad_message: the length of what is recovered, or -1.
Unpad(p) == IF p.len < 2 \/ 2 + p.real > p.len THEN -1 ELSE p.real

=============================================================================
