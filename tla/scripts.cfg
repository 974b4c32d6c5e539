SPECIFICATION Spec
CONSTANTS
    Session = {s1, s2}
    Work = {w1}
    Texts <- MCTexts
    Plain = {}
    NoText = NoText
INVARIANT StatusShowsBlock
