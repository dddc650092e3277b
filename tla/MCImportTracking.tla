-------------------------- MODULE MCImportTracking --------------------------
EXTENDS ImportTracking, TLC

CONSTANTS app, tool, pa, pb, pc, px, py

\* app and tool are programs; px and py are outside both, and px imports pc.
MCImports == (app :> {pa, pb}) @@ (tool :> {pa, pc}) @@ (pa :> {}) @@ (pb :> {})
             @@ (pc :> {}) @@ (px :> {pc}) @@ (py :> {})

Adding(ofA, ofB, ofC) == [p \in Packages |-> CASE p = pa -> ofA [] p = pb -> ofB
                                             [] p = pc -> ofC [] OTHER -> {}]

AllAdds == <<
  Adding({px}, {}, {py}),      \* an outer and a nested command compile pc
  Adding({pb, px}, {px}, {}),  \* several imports in one compile
  Adding({pb}, {px}, {py}),    \* three levels
  Adding({pb, px}, {pc}, {py}),\* three levels, and two of them twice
  Adding({pb}, {pc}, {pa}),    \* a cycle of added imports
  Adding({px}, {}, {pa}),      \* a cycle by way of what an added package imports
  Adding({pb}, {px}, {pa}),    \* both
  Adding({}, {}, {px}),        \* pc is given an import of px, which imports pc
  Adding({pb}, {px}, {px})     \* the same below two other levels
>>

FewAdds == <<Adding({px}, {}, {py}), Adding({pb}, {px}, {}), Adding({}, {}, {})>>
=============================================================================
