------------------------------ MODULE CoapMux -------------------------------
(***************************************************************************)
(* The request multiplexer, backend/go-coap/servmux.go.  Patterns and      *)
(* paths are sequences of bytes; a multiplexer is a function from the      *)
(* patterns it was given to their handlers.                                *)
(***************************************************************************)
EXTENDS Integers, Sequences

PathSeparator == 47

(* The pattern without its leading slashes.                                *)
Stripped(pattern) ==
    LET inside == {i \in DOMAIN pattern : pattern[i] # PathSeparator}
        first  == CHOOSE i \in inside : \A j \in inside : i <= j
    IN  SubSeq(pattern, first, Len(pattern))

(* Handle: a second handler for a pattern takes the place of the first.    *)
Handle(mux, pattern, handler) ==
    [k \in DOMAIN mux \cup {Stripped(pattern)} |->
        IF k = Stripped(pattern) THEN handler ELSE mux[k]]

(* Mutation of pathMatch: a pattern without a slash at its end is a prefix *)
(* too.                                                                    *)
pathMatch_AnyPrefix(pattern, path) ==
    /\ pattern # <<>>
    /\ Len(path) >= Len(pattern)
    /\ SubSeq(path, 1, Len(pattern)) = pattern

(* A pattern that ends in a slash stands for every path it begins.         *)
pathMatch(pattern, path) ==
    /\ pattern # <<>>
    /\ IF pattern[Len(pattern)] # PathSeparator THEN pattern = path
       ELSE /\ Len(path) >= Len(pattern)
            /\ SubSeq(path, 1, Len(pattern)) = pattern

Matching(mux, path) == {k \in DOMAIN mux : pathMatch(k, path)}

(* Mutation of match: the first pattern that matches is taken.             *)
match_First(mux, path) == Matching(mux, path)

(* The patterns the loop over the map can end with: a longest one of those *)
(* that match.  The map is iterated in no particular order.                *)
match(mux, path) ==
    {k \in Matching(mux, path) :
        \A j \in Matching(mux, path) : Len(j) <= Len(k)}
=============================================================================
