-------------------------------- MODULE Text --------------------------------
(***************************************************************************)
(* A string, as far as the configuration code looks at one: a word, with   *)
(* blanks around it or not, in capitals or not.  The operators are what    *)
(* the functions of Go's package strings do to such a string.              *)
(***************************************************************************)
\* Every string; the provers do not know that a string the code writes is one.
Strings ==
  STRING \cup
  {"", "text", "json", "tcp", "udp", "minecraft", "x-road-token", "authorization", "auth header",
   "v1", "builtin", "passthrough", "pipeline", "any", "same_ip", "strict", "default", "target",
   "0.0.0.0", "127.0.0.1", "127.0.0.1:8080", "127", "0", "1", "localhost", "::1",
   "http", "https", "ws", "wss", "/ws", "plugins"}

TextType == [word : Strings, spaced : BOOLEAN, upper : BOOLEAN]

Text(word) == [word |-> word, spaced |-> FALSE, upper |-> FALSE]
Spaced(t) == [t EXCEPT !.spaced = TRUE]
Upper(t) == [t EXCEPT !.upper = TRUE]

Empty == Text("")

TrimSpace(t) == [t EXCEPT !.spaced = FALSE]
ToLower(t) == [t EXCEPT !.upper = FALSE]
EqualFold(t, u) == ToLower(t) = ToLower(u)
IsBlank(t) == TrimSpace(t) = Empty
OrElse(t, default) == IF t = Empty THEN default ELSE t
=============================================================================
