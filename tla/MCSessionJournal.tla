-------------------------- MODULE MCSessionJournal --------------------------
(* Two top-level names with one name below each, enough for a directory to   *)
(* be renamed over another with its content, and a name that is written      *)
(* while an event stream is followed.  As strings a is "d_", b is "d" and a  *)
(* letter of two bytes, x is "x" and c is "d_x": the paths below b are cut   *)
(* one character too late, so that b renamed to a leaves its file at c, and  *)
(* the pattern of a finds what is below b, which another name for a (Third)  *)
(* is needed to show.                                                        *)
EXTENDS SessionJournal

CONSTANTS a, b, c, x

MCPath == {<<a>>, <<b>>, <<a, x>>, <<b, x>>, <<c>>}
MCWatched == {<<c>>}
Third == MCPath \cup {<<c, x>>}

MCGlobs == {<<d, p>> \in Path \X Path : Under(d, p)}
MCLikes == MCGlobs \cup {<< <<a>>, <<b, x>> >>}
MCCut(from, to, p) ==
    IF from = <<b>> THEN IF to = <<a>> THEN <<c>> ELSE Root ELSE Graft(from, to, p)

Symmetry == Permutations(Reverter)
=============================================================================
