SPECIFICATION Spec
CONSTANTS
    Blank = " "
    Newline = "/"
    Stale = "?"
    Title <- MCTitle
    Heading <- MCHeading
    Version <- MCVersion
    Developers <- MCDevelopers
    Prompt <- MCPrompt
    Sizes <- MCSizes
    Displays <- MCDisplays
    Partial <- MCPartial
INVARIANTS LayoutFits ScreenIsTheFrame BandAndPromptAreVisible MessageBeforeChrome
PROPERTY BandScrollsByOne
