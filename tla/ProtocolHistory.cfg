\* Two calls at once on a chain that forks; probes enough for a search that looks at
\* every block.
SPECIFICATION Spec
CONSTANTS
    first = first
    second = second
    Caller <- TwoCallers
    Block <- ShortBlock
    Height <- ShortHeight
    Ancestors <- ShortAncestors
    Log <- NoLog
    BlockOf <- NoBlockOf
    Deployed <- ShortDeployed
    FinalityDepth = 1
    MaxCodeProbes = 7
SYMMETRY CallerSymmetry
INVARIANTS BoundaryDescribesHead AnswerIsCurrent ProbesSuffice
