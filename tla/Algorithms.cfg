SPECIFICATION Spec
INVARIANT TextIsBrokenRight ExtractionFollowsGrammar RightFrames
