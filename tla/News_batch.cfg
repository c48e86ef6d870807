\* One article of the batch is refused by the database.
CONSTANTS
    Urls = {1, 2}
    Bad = {2}
    Tasks = {t1, t2}
SYMMETRY Symmetry
SPECIFICATION Spec
PROPERTIES BatchSurvives
