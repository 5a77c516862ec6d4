--------------------------------- MODULE Labels ---------------------------------
(* Label sets, as maps from keys to values, and the selectors made of them.  *)

(* f overridden by g: the loops that copy one label map into another. *)
Merge(f, g) ==
    [k \in DOMAIN f \cup DOMAIN g |-> IF k \in DOMAIN g THEN g[k] ELSE f[k]]

(* labels.SelectorFromSet(sel).Matches(labels) *)
Matches(sel, labels) ==
    \A k \in DOMAIN sel : k \in DOMAIN labels /\ labels[k] = sel[k]

================================================================================
