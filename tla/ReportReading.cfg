SPECIFICATION Spec
CONSTANTS
    Nil = Nil
    None = None
    Taxonomy <- MCTaxonomy
    Tags <- MCTags
    Blank <- MCBlank
    Tolerance <- MCTolerance
    Package <- MCPackage
INVARIANTS
    DriftBounded
    RawMatchesBuckets
    BestEvidence
    Provenance
    CountedAsLinked
