------------------------------ MODULE Options ------------------------------
(* Rust's Option::None, and a map's missing entry                           *)
CONSTANT None
=============================================================================
