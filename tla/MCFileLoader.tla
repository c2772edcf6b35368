---------------------------- MODULE MCFileLoader ----------------------------
(* Model checking instance of FileLoader: files of up to six parts that     *)
(* are downloaded with known and unknown size, with offsets and limits that *)
(* are changed on the way, or decrypted in order, and files that are        *)
(* uploaded, some of them while they are made.                              *)
EXTENDS FileLoader

Transfer(kind, size, given_size, ready, prefix, steered, share) ==
  [kind |-> kind, size |-> size, given |-> given_size, ready |-> ready,
   prefix |-> prefix, steered |-> steered, share |-> share, cdn |-> FALSE]

Redirected(T) == { [t EXCEPT !.cdn = TRUE] : t \in T }

SmallTransfers ==
  { Transfer("plain", 7, 7, {}, -1, TRUE, 4),
    Transfer("secret", 9, 9, {0}, -1, TRUE, 6),
    Transfer("upload", 7, 7, {}, -1, TRUE, 6),
    Transfer("upload", 5, 0, {}, 0, FALSE, 4),
    Transfer("upload", 7, 0, {0}, 3, FALSE, 4),
    Transfer("upload", 5, 0, {0}, 0, FALSE, 4),
    Transfer("upload", 15, 0, {}, 0, FALSE, 4) }
  \cup Redirected(
  { Transfer("plain", 5, 5, {1}, -1, TRUE, 6),
    Transfer("plain", 4, 0, {}, -1, FALSE, 8),
    Transfer("plain", 9, 0, {}, -1, FALSE, 8),
    Transfer("plain", 15, 0, {}, -1, FALSE, 8),
    Transfer("secure", 5, 0, {}, -1, FALSE, 6),
    Transfer("secret", 11, 11, {0}, -1, FALSE, 8) })

(* a download of unknown size whose user asks for a part of it *)
UnknownSize == { Transfer("plain", 5, 0, {}, -1, TRUE, 8) }

(* a file that is uploaded while it is made and ends with a whole part *)
WholeParts == { Transfer("upload", 4, 0, {}, 0, FALSE, 4) }
=============================================================================
