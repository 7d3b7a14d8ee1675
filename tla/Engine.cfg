CONSTANTS
    Syllables = 4
    MaxWords = 1
    Widths = {1, 2}
    Scores = {1, 2}
SPECIFICATION Asked
INVARIANTS KeepsTheBest SentencesRight CutsRight DigitsRight
CHECK_DEADLOCK FALSE
