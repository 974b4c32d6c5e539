SPECIFICATION Spec
CONSTANTS
    Session = {s1, s2}
    Work = {w1, w2}
    Texts <- MCTexts
    Plain = {s1}
    NoText = NoText
INVARIANTS TypeOK ToldTruth IdleHoldsNothing
PROPERTIES Answered LocksReleased
